-------------------------- MODULE ProjectCatalogProofs --------------------------
(***************************************************************************)
(* Theorems about ProjectCatalog, for any requests, tenants, bodies and    *)
(* faults.  What makes NoUpdateLost and LogTellsTruth inductive is Facts:  *)
(* what the position of a handler says of its call, its row and its        *)
(* verdict.                                                                *)
(***************************************************************************)
EXTENDS ProjectCatalog, SequenceTheorems, TLAPS

\* What the position of r's handler says of it.
Facts(r) ==
    /\ pc[r] # "idle" => Tenant(r) \in Tenants
    /\ pc[r] \in {"readOld", "find"} => call[r].op \in {"update", "delete"}
    /\ pc[r] = "write" => call[r].op = "create" \/ Exists(r)
    /\ r \in wrote => pc[r] \in {"answer", "done"} /\ Exists(r)
    /\ pc[r] \in {"answer", "done"} /\ result[r] = "ok" =>
          Exists(r) /\ (r \in wrote \/ call[r].op = "delete")
    /\ audit[r] # "none" => pc[r] = "done" /\ result[r] = "ok"
    /\ call[r].op = "create" => call[r].sets \in Bodies

\* The entries of a tenant are written entries of its requests, each once.
Entries ==
    \A t \in Tenants : \A i \in 1..Len(logs[t]) :
        /\ Tenant(logs[t][i]) = t
        /\ audit[logs[t][i]] = "written"
Unique ==
    \A t \in Tenants : \A i, j \in 1..Len(logs[t]) : logs[t][i] = logs[t][j] => i = j

IInv ==
    /\ CatalogTypeOK
    /\ \A r \in Requests : Facts(r)
    /\ Entries
    /\ Unique
    /\ NoUpdateLost

--------------------------------------------------------------------------------
\* Rows.

LEMMA SetIsRow ==
    ASSUME NEW row \in Row, NEW sets \in Sets
    PROVE  Set(row, sets) \in Row
  <1>1. \A c \in Columns : Set(row, sets)[c] \in Domain(c)
    BY DEF Set, Row, Sets
  <1>2. \A c \in Columns : Domain(c) \subseteq Values
    BY DEF Domain, Values, Columns
  <1> QED
    BY <1>1, <1>2 DEF Set, Row

LEMMA NewRowIsRow ==
    ASSUME NEW body \in Bodies
    PROVE  NewRow(body) \in Row
  <1>1. body \in Sets /\ body["name"] # None
    BY ProjectCatalogAssumption
  <1>2. body["name"] \in Names
    BY <1>1 DEF Sets, Columns, Domain
  <1>3. body["status"] \in Stati \cup {None}
    BY <1>1 DEF Sets, Columns, Domain
  <1>4. NewRow(body)["name"] \in Domain("name")
    BY <1>2 DEF NewRow, Domain, Columns
  <1>5. NewRow(body)["status"] \in Domain("status")
    BY <1>3, ProjectCatalogAssumption DEF NewRow, Domain, Columns
  <1>6. NewRow(body)["is_active"] \in Domain("is_active")
    <2>1. NewRow(body)["is_active"] = TRUE
      BY DEF NewRow, Columns
    <2> QED
      BY <2>1 DEF Domain
  <1>7. \A c \in Columns : NewRow(body)[c] \in Domain(c)
    BY <1>4, <1>5, <1>6 DEF Columns
  <1>8. \A c \in Columns : Domain(c) \subseteq Values
    BY DEF Domain, Values, Columns
  <1> QED
    BY <1>7, <1>8 DEF NewRow, Row

\* A body of POST is what the new row has.
LEMMA NewRowHasBody ==
    ASSUME NEW body \in Bodies, NEW c \in Columns, body[c] # None
    PROVE  NewRow(body)[c] = body[c]
  <1>1. body["is_active"] = None
    BY ProjectCatalogAssumption
  <1> QED
    BY <1>1 DEF NewRow, Columns

LEMMA SoftDeletedIsSets == SoftDeleted \in Sets /\ Nothing \in Sets
  <1>1. \A c \in Columns : SoftDeleted[c] \in Domain(c) \cup {None}
    BY DEF SoftDeleted, Domain, Columns
  <1>2. \A c \in Columns : SoftDeleted[c] \in Values \cup {None}
    BY DEF SoftDeleted, Values, Columns
  <1>3. SoftDeleted \in Sets
    BY <1>1, <1>2 DEF SoftDeleted, Sets
  <1> QED
    BY <1>3 DEF Nothing, Sets

\* What a request asks for is well formed.
LEMMA CallsAreTyped ==
    ASSUME NEW c \in Calls, c.op \in Ops
    PROVE  /\ c \in [op : Ops \cup {"none"}, tenant : Tenants \cup {None}, id : Nat, sets : Sets]
           /\ c.tenant \in Tenants
           /\ c.op = "create" => c.sets \in Bodies
           /\ c.op \in AllOps
  BY SoftDeletedIsSets, ProjectCatalogAssumption DEF Calls, AllOps

--------------------------------------------------------------------------------
LEMMA InitIInv == CatalogInit => IInv
  <1> SUFFICES ASSUME CatalogInit PROVE IInv
    OBVIOUS
  <1>1. NoCall \in [op : Ops \cup {"none"}, tenant : Tenants \cup {None}, id : Nat, sets : Sets]
    BY SoftDeletedIsSets DEF NoCall
  <1>2. CatalogTypeOK
    BY <1>1, ProjectCatalogAssumption DEF CatalogInit, CatalogTypeOK
  <1>3. \A r \in Requests : Facts(r)
    BY DEF CatalogInit, Facts, NoCall
  <1>4. Entries /\ Unique
    BY DEF CatalogInit, Entries, Unique
  <1>5. NoUpdateLost
    BY DEF CatalogInit, NoUpdateLost
  <1> QED
    BY <1>2, <1>3, <1>4, <1>5 DEF IInv

--------------------------------------------------------------------------------
\* The steps that write no table.

LEMMA ReceiveStep ==
    ASSUME IInv, NEW r \in Requests, Receive(r)
    PROVE  IInv'
  <1> USE DEF IInv
  <1>1. PICK op \in Ops, t \in Tenants, sets \in Bodies \cup Patches \cup {SoftDeleted}, id \in Nat :
            /\ [op |-> op, tenant |-> t, id |-> id, sets |-> sets] \in Calls
            /\ call' = [call EXCEPT ![r] = [op |-> op, tenant |-> t, id |-> id, sets |-> sets]]
            /\ pc' = [pc EXCEPT ![r] = FirstStep(op)]
    <2>1. \A t \in Tenants : 0..Len(projects[t]) + 1 \subseteq Nat
      BY LenProperties DEF CatalogTypeOK
    <2> QED
      BY <2>1 DEF Receive
  <1> DEFINE c == [op |-> op, tenant |-> t, id |-> id, sets |-> sets]
  <1>2. /\ c \in [op : Ops \cup {"none"}, tenant : Tenants \cup {None}, id : Nat, sets : Sets]
        /\ c.tenant = t /\ c.op = op
        /\ c.op = "create" => c.sets \in Bodies
        /\ c.op \in AllOps
    <2>1. c \in Calls /\ c.op \in Ops
      BY <1>1
    <2>2. c.tenant = t /\ c.op = op
      OBVIOUS
    <2> HIDE DEF c
    <2> QED
      BY <2>1, <2>2, CallsAreTyped
  <1>3. /\ call' = [call EXCEPT ![r] = c] /\ call'[r] = c
        /\ \A q \in Requests \ {r} : call'[q] = call[q] /\ pc'[q] = pc[q]
        /\ pc[r] = "idle" /\ pc'[r] = FirstStep(op)
        /\ UNCHANGED <<projects, logs, found, result, audit, wrote>>
    BY <1>1 DEF Receive, CatalogTypeOK
  <1> HIDE DEF c
  <1>4. CatalogTypeOK'
    BY <1>1, <1>2, <1>3 DEF CatalogTypeOK, FirstStep
  <1>5. Facts(r)'
    BY <1>2, <1>3 DEF Facts, FirstStep, Tenant, AllOps
  <1>6. \A q \in Requests \ {r} : Facts(q)'
    BY <1>3 DEF Facts, Tenant, Exists, Table
  <1>7. \A q \in wrote : q # r /\ q \in Requests
    BY <1>3 DEF Facts, CatalogTypeOK
  <1>8. \A s \in Tenants : \A i \in 1..Len(logs[s]) : logs[s][i] # r /\ logs[s][i] \in Requests
    <2>1. audit[r] = "none"
      BY <1>3 DEF Facts, CatalogTypeOK
    <2> QED
      BY <2>1, ElementOfSeq DEF Entries, CatalogTypeOK
  <1>9. Entries' /\ Unique'
    BY <1>3, <1>8 DEF Entries, Unique, Tenant
  <1>10. NoUpdateLost'
    BY <1>3, <1>7 DEF NoUpdateLost, SameProject, Tenant, Table
  <1> QED
    BY <1>4, <1>5, <1>6, <1>9, <1>10

\* No table, no call and no write changes, nor any entry's state.
LEMMA QuietStep ==
    ASSUME IInv, UNCHANGED <<projects, logs, call, wrote>>,
           CatalogTypeOK', \A r \in Requests : Facts(r)',
           \A r \in Requests : audit[r] = "written" => audit'[r] = "written"
    PROVE  IInv'
  <1> USE DEF IInv
  <1>1. Entries'
    <2>1. \A t \in Tenants : \A i \in 1..Len(logs[t]) : logs[t][i] \in Requests
      BY ElementOfSeq DEF CatalogTypeOK
    <2> QED
      BY <2>1 DEF Entries, Tenant
  <1>2. Unique' /\ NoUpdateLost'
    BY DEF Unique, NoUpdateLost, SameProject, Tenant, Table
  <1> QED
    BY <1>1, <1>2

LEMMA ReadStep ==
    ASSUME IInv, NEW r \in Requests,
           ReadOld(r) \/ FindProject(r) \/ NotFound(r) \/ WriteFails(r)
    PROVE  IInv'
  <1> USE DEF IInv
  <1>1. UNCHANGED <<projects, logs, call, audit, wrote>>
    BY DEF ReadOld, FindProject, NotFound, WriteFails
  <1>2. CatalogTypeOK'
    <2>1. CASE FindProject(r)
      <3>1. Tenant(r) \in Tenants
        BY <2>1 DEF FindProject, Facts
      <3>2. Table(r)[call[r].id] \in Row
        BY <2>1, <3>1, ElementOfSeq DEF FindProject, Exists, Table, CatalogTypeOK
      <3> QED
        BY <2>1, <3>2 DEF FindProject, CatalogTypeOK
    <2> QED
      BY <2>1 DEF ReadOld, NotFound, WriteFails, Decide, AfterError, CatalogTypeOK
  <1>3. \A q \in Requests : Facts(q)'
    BY <1>1 DEF ReadOld, FindProject, NotFound, WriteFails, Decide, AfterError, Facts, Exists,
                Table, Tenant, CatalogTypeOK
  <1> QED
    BY <1>1, <1>2, <1>3, QuietStep

LEMMA AnswerStep ==
    ASSUME IInv, NEW r \in Requests, Respond(r) \/ LoseEntry(r)
    PROVE  IInv'
  <1> USE DEF IInv
  <1>1. UNCHANGED <<projects, logs, call, wrote>>
    BY DEF Respond, LoseEntry
  <1>2. CatalogTypeOK'
    BY DEF Respond, LoseEntry, CatalogTypeOK
  <1>3. \A q \in Requests : Facts(q)'
    BY <1>1 DEF Respond, LoseEntry, Facts, Exists, Table, Tenant, CatalogTypeOK
  <1>4. \A q \in Requests : audit[q] = "written" => audit'[q] = "written"
    BY DEF Respond, LoseEntry, Facts, CatalogTypeOK
  <1> QED
    BY <1>1, <1>2, <1>3, <1>4, QuietStep

--------------------------------------------------------------------------------
\* The steps that write a table.

LEMMA WriteEntryStep ==
    ASSUME IInv, NEW r \in Requests, WriteEntry(r)
    PROVE  IInv'
  <1> USE DEF IInv
  <1> DEFINE t == Tenant(r)
  <1> DEFINE s == logs[t]
  <1>1. /\ audit[r] = "due"
        /\ audit' = [audit EXCEPT ![r] = "written"]
        /\ logs' = [logs EXCEPT ![t] = Append(s, r)]
        /\ UNCHANGED <<projects, pc, call, found, result, wrote>>
    BY DEF WriteEntry
  <1>2. t \in Tenants
    BY <1>1 DEF Facts
  <1>3. s \in Seq(Requests)
    BY <1>2 DEF CatalogTypeOK
  <1>4. /\ Append(s, r) \in Seq(Requests)
        /\ Len(Append(s, r)) = Len(s) + 1
        /\ \A i \in 1..Len(s) : Append(s, r)[i] = s[i]
        /\ Append(s, r)[Len(s) + 1] = r
    BY <1>3, AppendProperties
  <1>5. Len(s) \in Nat
    BY <1>3, LenProperties
  <1>6. \A i \in 1..Len(s) : s[i] # r
    BY <1>1, <1>2 DEF Entries
  <1>7. /\ logs'[t] = Append(s, r)
        /\ \A u \in Tenants \ {t} : logs'[u] = logs[u]
    BY <1>1, <1>2 DEF CatalogTypeOK
  <1>8. CatalogTypeOK'
    <2>1. logs' \in [Tenants -> Seq(Requests)]
      BY <1>1, <1>4 DEF CatalogTypeOK
    <2> QED
      BY <1>1, <2>1 DEF CatalogTypeOK
  <1>9. \A q \in Requests : Facts(q)'
    BY <1>1 DEF Facts, Exists, Table, Tenant, CatalogTypeOK
  <1>10. \A i \in 1..Len(s) + 1 : i \in 1..Len(s) \/ i = Len(s) + 1
    BY <1>5
  <1>11. \A u \in Tenants : \A i \in 1..Len(logs[u]) : logs[u][i] \in Requests
    BY ElementOfSeq DEF CatalogTypeOK
  <1>12. \A q \in Requests : call'[q].tenant = Tenant(q) /\ (audit[q] = "written" => audit'[q] = "written")
    BY <1>1 DEF Tenant, CatalogTypeOK
  <1>13. audit'[r] = "written"
    BY <1>1 DEF CatalogTypeOK
  <1> HIDE DEF s, t
  <1>14. Entries'
    <2> SUFFICES ASSUME NEW u \in Tenants, NEW i \in 1..Len(logs'[u])
                 PROVE  call'[logs'[u][i]].tenant = u /\ audit'[logs'[u][i]] = "written"
      BY DEF Entries, Tenant
    <2>1. CASE u # t
      BY <2>1, <1>7, <1>11, <1>12 DEF Entries
    <2>2. CASE u = t /\ i \in 1..Len(s)
      BY <2>2, <1>2, <1>4, <1>7, <1>11, <1>12 DEF Entries, s
    <2>3. CASE u = t /\ i = Len(s) + 1
      BY <2>3, <1>4, <1>7, <1>12, <1>13 DEF t
    <2> QED
      BY <2>1, <2>2, <2>3, <1>4, <1>7, <1>10
  <1>15. Unique'
    <2> SUFFICES ASSUME NEW u \in Tenants, NEW i \in 1..Len(logs'[u]), NEW j \in 1..Len(logs'[u]),
                        logs'[u][i] = logs'[u][j]
                 PROVE  i = j
      BY DEF Unique
    <2>1. CASE u # t
      BY <2>1, <1>7 DEF Unique
    <2>2. CASE u = t
      <3>1. CASE i \in 1..Len(s) /\ j \in 1..Len(s)
        BY <2>2, <3>1, <1>2, <1>4, <1>7 DEF Unique, s
      <3>2. CASE i = Len(s) + 1 \/ j = Len(s) + 1
        BY <2>2, <3>2, <1>4, <1>6, <1>7, <1>10
      <3> QED
        BY <2>2, <3>1, <3>2, <1>4, <1>7, <1>10
    <2> QED
      BY <2>1, <2>2
  <1>16. NoUpdateLost'
    BY <1>1 DEF NoUpdateLost, SameProject, Tenant, Table
  <1> QED
    BY <1>8, <1>9, <1>14, <1>15, <1>16

\* What a committed write tells of its request and of the others.
LEMMA CommitFacts ==
    ASSUME IInv, NEW r \in Requests, pc[r] = "write", Commit(r)
    PROVE  /\ wrote' = wrote \cup {r} /\ r \notin wrote
           /\ UNCHANGED <<logs, found, audit>>
           /\ pc' = [pc EXCEPT ![r] = "answer"]
           /\ result' \in [Requests -> {"none", "ok", "notFound", "serverError"}]
           /\ \A q \in Requests \ {r} : pc'[q] = pc[q] /\ result'[q] = result[q]
           /\ audit[r] = "none"
  BY DEF IInv, Commit, Decide, AfterError, Facts, CatalogTypeOK

\* The entries do not depend on what a request without an entry does.
LEMMA EntriesKept ==
    ASSUME IInv, NEW r \in Requests, audit[r] = "none", UNCHANGED <<logs, audit>>,
           \A q \in Requests \ {r} : call'[q] = call[q]
    PROVE  Entries' /\ Unique'
  <1>1. \A t \in Tenants : \A i \in 1..Len(logs[t]) : logs[t][i] \in Requests \ {r}
    BY ElementOfSeq DEF IInv, Entries, CatalogTypeOK
  <1> QED
    BY <1>1 DEF IInv, Entries, Unique, Tenant

LEMMA InsertStep ==
    ASSUME IInv, NEW r \in Requests, InsertProject(r)
    PROVE  IInv'
  <1> USE DEF IInv
  <1> DEFINE t == Tenant(r)
  <1> DEFINE s == projects[t]
  <1> DEFINE row == NewRow(call[r].sets)
  <1>1. /\ pc[r] = "write" /\ call[r].op = "create"
        /\ projects' = [projects EXCEPT ![t] = Append(s, row)]
        /\ call' = [call EXCEPT ![r].id = Len(s) + 1]
        /\ Commit(r)
    BY DEF InsertProject, Table
  <1>2. t \in Tenants /\ call[r].sets \in Bodies
    BY <1>1 DEF Facts
  <1>3. row \in Row
    BY <1>2, NewRowIsRow
  <1>4. s \in Seq(Row) /\ Len(s) \in Nat
    BY <1>2, LenProperties DEF CatalogTypeOK
  <1>5. /\ wrote' = wrote \cup {r} /\ r \notin wrote
        /\ UNCHANGED <<logs, found, audit>>
        /\ pc' = [pc EXCEPT ![r] = "answer"]
        /\ result' \in [Requests -> {"none", "ok", "notFound", "serverError"}]
        /\ \A q \in Requests \ {r} : pc'[q] = pc[q] /\ result'[q] = result[q]
        /\ audit[r] = "none"
    BY <1>1, CommitFacts
  <1>6. /\ call'[r] = [call[r] EXCEPT !.id = Len(s) + 1]
        /\ \A q \in Requests \ {r} : call'[q] = call[q]
    BY <1>1 DEF CatalogTypeOK
  <1>7. /\ call'[r].op = "create" /\ call'[r].tenant = t /\ call'[r].id = Len(s) + 1
        /\ call'[r].sets = call[r].sets
    BY <1>1, <1>6 DEF CatalogTypeOK, Tenant
  <1> HIDE DEF row
  <1>8. /\ Append(s, row) \in Seq(Row)
        /\ Len(Append(s, row)) = Len(s) + 1
        /\ \A i \in 1..Len(s) : Append(s, row)[i] = s[i]
        /\ Append(s, row)[Len(s) + 1] = row
    BY <1>3, <1>4, AppendProperties
  <1>9. /\ projects'[t] = Append(s, row)
        /\ \A u \in Tenants \ {t} : projects'[u] = projects[u]
        /\ projects' \in [Tenants -> Seq(Row)]
    BY <1>1, <1>2, <1>8 DEF CatalogTypeOK
  <1>10. CatalogTypeOK'
    <2>1. call'[r] \in [op : Ops \cup {"none"}, tenant : Tenants \cup {None}, id : Nat, sets : Sets]
      <3>1. call[r] \in [op : Ops \cup {"none"}, tenant : Tenants \cup {None}, id : Nat, sets : Sets]
        BY DEF CatalogTypeOK
      <3>2. Len(s) + 1 \in Nat
        BY <1>4
      <3> HIDE DEF s
      <3> QED
        BY <3>1, <3>2, <1>6
    <2>2. call' \in [Requests -> [op : Ops \cup {"none"}, tenant : Tenants \cup {None},
                                  id : Nat, sets : Sets]]
      BY <2>1, <1>1 DEF CatalogTypeOK
    <2> QED
      BY <2>2, <1>5, <1>9 DEF CatalogTypeOK
  \* Nothing else moves a row: old rows keep their place and their columns.
  <1>11. \A u \in Tenants : /\ Len(projects'[u]) >= Len(projects[u])
                            /\ Len(projects'[u]) \in Nat /\ Len(projects[u]) \in Nat
                            /\ \A i \in 1..Len(projects[u]) : projects'[u][i] = projects[u][i]
    <2> TAKE u \in Tenants
    <2>1. Len(projects'[u]) \in Nat /\ Len(projects[u]) \in Nat
      BY <1>9, LenProperties DEF CatalogTypeOK
    <2>2. CASE u = t
      <3>1. projects'[u] = Append(s, row) /\ projects[u] = s
        BY <2>2, <1>9
      <3> HIDE DEF s, t
      <3> QED
        BY <3>1, <2>1, <1>4, <1>8
    <2>3. CASE u # t
      <3>1. projects'[u] = projects[u]
        BY <2>3, <1>9
      <3> QED
        BY <3>1, <2>1
    <2> QED
      BY <2>2, <2>3
  <1>12. \A q \in Requests \ {r} : Exists(q) /\ Tenant(q) \in Tenants => Exists(q)'
    BY <1>6, <1>11 DEF Exists, Table, Tenant, CatalogTypeOK
  <1>13. Exists(r)' /\ Tenant(r)' = t /\ Table(r)'[call'[r].id] = row
    BY <1>4, <1>7, <1>8, <1>9 DEF Exists, Table, Tenant
  <1>14. \A q \in Requests \ {r} : Facts(q)'
    <2> TAKE q \in Requests \ {r}
    <2>1. /\ pc'[q] = pc[q] /\ call'[q] = call[q] /\ result'[q] = result[q] /\ audit'[q] = audit[q]
          /\ q \in wrote' <=> q \in wrote
          /\ Exists(q) /\ Tenant(q) \in Tenants => Exists(q)'
          /\ Facts(q)
      BY <1>5, <1>6, <1>12
    <2> QED
      BY <2>1 DEF Facts, Tenant
  <1>15. Facts(r)'
    <2>1. pc'[r] = "answer" /\ audit'[r] = "none" /\ r \in wrote'
      BY <1>5 DEF CatalogTypeOK
    <2> QED
      BY <2>1, <1>2, <1>7, <1>13 DEF Facts
  <1>16. Entries' /\ Unique'
    BY <1>5, <1>6, EntriesKept
  <1>17. NoUpdateLost'
    <2> SUFFICES ASSUME NEW q \in wrote', NEW c \in Columns, call'[q].sets[c] # None
                 PROVE  \/ Table(q)'[call'[q].id][c] = call'[q].sets[c]
                        \/ \E p \in wrote' \ {q} : SameProject(p, q)' /\ call'[p].sets[c] # None
      BY DEF NoUpdateLost
    <2>1. CASE q = r
      BY <2>1, <1>2, <1>7, <1>13, NewRowHasBody DEF row
    <2>2. CASE q # r
      <3>1. q \in wrote /\ q \in Requests /\ call'[q] = call[q] /\ Exists(q) /\ Tenant(q) \in Tenants
        BY <2>2, <1>5, <1>6 DEF Facts, CatalogTypeOK
      <3>2. Table(q)'[call'[q].id] = Table(q)[call[q].id]
        BY <3>1, <1>11 DEF Exists, Table, Tenant
      <3>3. CASE Table(q)[call[q].id][c] = call[q].sets[c]
        BY <3>1, <3>2, <3>3
      <3>4. CASE \E p \in wrote \ {q} : SameProject(p, q) /\ call[p].sets[c] # None
        <4>1. PICK p \in wrote \ {q} : SameProject(p, q) /\ call[p].sets[c] # None
          BY <3>4
        <4>2. p \in wrote' \ {q} /\ call'[p] = call[p]
          BY <4>1, <1>5, <1>6 DEF CatalogTypeOK
        <4> QED
          BY <4>1, <4>2, <3>1 DEF SameProject, Tenant
      <3> QED
        BY <3>1, <3>3, <3>4 DEF NoUpdateLost
    <2> QED
      BY <2>1, <2>2
  <1> QED
    BY <1>10, <1>14, <1>15, <1>16, <1>17

LEMMA UpdateStep ==
    ASSUME IInv, NEW r \in Requests, UpdateProject(r)
    PROVE  IInv'
  <1> USE DEF IInv
  <1> DEFINE t == Tenant(r)
  <1> DEFINE s == projects[t]
  <1> DEFINE k == call[r].id
  <1> DEFINE row == Set(s[k], call[r].sets)
  <1>1. /\ pc[r] = "write" /\ call[r].op \in {"update", "delete"}
        /\ projects' = [projects EXCEPT ![t] = [s EXCEPT ![k] = row]]
        /\ call' = call
        /\ Commit(r)
    BY DEF UpdateProject
  <1>2. t \in Tenants /\ k \in 1..Len(s)
    BY <1>1 DEF Facts, Exists, Table
  <1>3. s \in Seq(Row)
    BY <1>2 DEF CatalogTypeOK
  <1>4. row \in Row
    <2>1. s[k] \in Row
      BY <1>2, <1>3, ElementOfSeq
    <2>2. call[r].sets \in Sets
      BY DEF CatalogTypeOK
    <2> QED
      BY <2>1, <2>2, SetIsRow
  <1>5. /\ wrote' = wrote \cup {r} /\ r \notin wrote
        /\ UNCHANGED <<logs, found, audit>>
        /\ pc' = [pc EXCEPT ![r] = "answer"]
        /\ result' \in [Requests -> {"none", "ok", "notFound", "serverError"}]
        /\ \A q \in Requests \ {r} : pc'[q] = pc[q] /\ result'[q] = result[q]
        /\ audit[r] = "none"
    BY <1>1, CommitFacts
  <1>6. \A c \in Columns : row[c] = IF call[r].sets[c] = None THEN s[k][c] ELSE call[r].sets[c]
    BY DEF Set
  <1> HIDE DEF row
  <1>7. /\ [s EXCEPT ![k] = row] \in Seq(Row)
        /\ Len([s EXCEPT ![k] = row]) = Len(s)
        /\ \A i \in 1..Len(s) : [s EXCEPT ![k] = row][i] = IF i = k THEN row ELSE s[i]
    BY <1>2, <1>3, <1>4, ExceptSeq
  <1>8. /\ projects'[t] = [s EXCEPT ![k] = row]
        /\ \A u \in Tenants \ {t} : projects'[u] = projects[u]
        /\ projects' \in [Tenants -> Seq(Row)]
    BY <1>1, <1>2, <1>7 DEF CatalogTypeOK
  <1>9. CatalogTypeOK'
    BY <1>1, <1>5, <1>8 DEF CatalogTypeOK
  <1>10. \A u \in Tenants : Len(projects'[u]) = Len(projects[u])
    BY <1>7, <1>8
  <1>11. \A q \in Requests : Tenant(q) \in Tenants => (Exists(q)' <=> Exists(q))
    BY <1>1, <1>10 DEF Exists, Table, Tenant
  <1>12. \A q \in Requests \ {r} : Facts(q)'
    <2> TAKE q \in Requests \ {r}
    <2>1. /\ pc'[q] = pc[q] /\ call'[q] = call[q] /\ result'[q] = result[q] /\ audit'[q] = audit[q]
          /\ q \in wrote' <=> q \in wrote
          /\ Tenant(q) \in Tenants => (Exists(q)' <=> Exists(q))
          /\ Facts(q)
      BY <1>1, <1>5, <1>11
    <2> QED
      BY <2>1 DEF Facts, Tenant
  <1>13. Facts(r)'
    <2>1. pc'[r] = "answer" /\ audit'[r] = "none" /\ r \in wrote'
      BY <1>5 DEF CatalogTypeOK
    <2>2. Exists(r)' /\ Tenant(r)' \in Tenants
      BY <1>1, <1>2, <1>11 DEF Exists, Table, Tenant
    <2> QED
      BY <2>1, <2>2, <1>1 DEF Facts
  <1>14. Entries' /\ Unique'
    BY <1>1, <1>5, EntriesKept
  \* A column that r was not asked for keeps its value, in every row.
  <1>15. NoUpdateLost'
    <2> SUFFICES ASSUME NEW q \in wrote', NEW c \in Columns, call'[q].sets[c] # None
                 PROVE  \/ Table(q)'[call'[q].id][c] = call'[q].sets[c]
                        \/ \E p \in wrote' \ {q} : SameProject(p, q)' /\ call'[p].sets[c] # None
      BY DEF NoUpdateLost
    <2>1. CASE q = r
      <3>1. Table(r)'[call'[r].id] = row
        BY <1>1, <1>2, <1>7, <1>8 DEF Table, Tenant
      <3> QED
        BY <2>1, <3>1, <1>1, <1>6
    <2>2. CASE q # r
      <3>1. q \in wrote /\ q \in Requests /\ call'[q] = call[q] /\ Exists(q) /\ Tenant(q) \in Tenants
        BY <2>2, <1>1, <1>5 DEF Facts, CatalogTypeOK
      <3>2. CASE SameProject(r, q) /\ call[r].sets[c] # None
        <4>1. r \in wrote' \ {q} /\ SameProject(r, q)' /\ call'[r].sets[c] # None
          BY <2>2, <3>2, <1>1, <1>5 DEF SameProject, Tenant
        <4> QED
          BY <4>1
      <3>3. CASE ~(SameProject(r, q) /\ call[r].sets[c] # None)
        <4>1. Table(q)'[call'[q].id][c] = Table(q)[call[q].id][c]
          <5>1. CASE Tenant(q) # t
            BY <5>1, <3>1, <1>8 DEF Table, Tenant
          <5>2. CASE Tenant(q) = t /\ call[q].id # k
            <6>1. call[q].id \in 1..Len(s)
              BY <5>2, <3>1 DEF Exists, Table
            <6>2. projects'[t][call[q].id] = s[call[q].id]
              BY <6>1, <5>2, <1>7, <1>8
            <6> QED
              BY <6>2, <5>2, <3>1 DEF Table, Tenant
          <5>3. CASE Tenant(q) = t /\ call[q].id = k
            <6>1. call[r].sets[c] = None
              BY <5>3, <3>3 DEF SameProject
            <6>2. projects'[t][k] = row /\ row[c] = s[k][c]
              BY <6>1, <1>2, <1>6, <1>7, <1>8
            <6> QED
              BY <6>2, <5>3, <3>1 DEF Table, Tenant
          <5> QED
            BY <5>1, <5>2, <5>3
        <4>2. CASE Table(q)[call[q].id][c] = call[q].sets[c]
          BY <4>1, <4>2, <3>1
        <4>3. CASE \E p \in wrote \ {q} : SameProject(p, q) /\ call[p].sets[c] # None
          <5>1. PICK p \in wrote \ {q} : SameProject(p, q) /\ call[p].sets[c] # None
            BY <4>3
          <5>2. p \in wrote' \ {q} /\ call'[p] = call[p] /\ SameProject(p, q)'
            BY <5>1, <1>1, <1>5 DEF SameProject, Tenant
          <5> QED
            BY <5>1, <5>2
        <4> QED
          BY <3>1, <4>2, <4>3 DEF NoUpdateLost
      <3> QED
        BY <3>2, <3>3
    <2> QED
      BY <2>1, <2>2
  <1> QED
    BY <1>9, <1>12, <1>13, <1>14, <1>15

--------------------------------------------------------------------------------
LEMMA NextIInv == IInv /\ [CatalogNext]_catalogVars => IInv'
  <1> SUFFICES ASSUME IInv, [CatalogNext]_catalogVars PROVE IInv'
    OBVIOUS
  <1>1. CASE UNCHANGED catalogVars
    <2>1. UNCHANGED <<projects, logs, call, wrote, audit>>
      BY <1>1 DEF catalogVars
    <2>2. CatalogTypeOK'
      BY <1>1 DEF IInv, catalogVars, CatalogTypeOK
    <2>3. \A r \in Requests : Facts(r)'
      BY <1>1 DEF IInv, catalogVars, Facts, Exists, Table, Tenant
    <2> QED
      BY <2>1, <2>2, <2>3, QuietStep
  <1>2. ASSUME NEW r \in Requests, Receive(r) PROVE IInv'
    BY <1>2, ReceiveStep
  <1>3. ASSUME NEW r \in Requests, Handle(r) PROVE IInv'
    <2>1. CASE ReadOld(r) \/ FindProject(r) \/ NotFound(r) \/ WriteFails(r)
      BY <2>1, ReadStep
    <2>2. CASE InsertProject(r)
      BY <2>2, InsertStep
    <2>3. CASE UpdateProject(r)
      BY <2>3, UpdateStep
    <2>4. CASE Respond(r) \/ LoseEntry(r)
      BY <2>4, AnswerStep
    <2>5. CASE WriteEntry(r)
      BY <2>5, WriteEntryStep
    <2> QED
      BY <1>3, <2>1, <2>2, <2>3, <2>4, <2>5 DEF Handle
  <1> QED
    BY <1>1, <1>2, <1>3 DEF CatalogNext

\* The strengthening holds in every reachable state.
THEOREM CatalogInductive == CatalogSpec => []IInv
  BY InitIInv, NextIInv, PTL DEF CatalogSpec

\* The variables of the projects component keep their types, whatever fails.
THEOREM CatalogTypeCorrect == CatalogSpec => []CatalogTypeOK
  BY CatalogInductive, PTL DEF IInv

\* updateProject and deleteProject lose no update, however many requests are about
\* one project and although each reads the row long before it writes.
THEOREM NoUpdateLostHolds == CatalogSpec => []NoUpdateLost
  BY CatalogInductive, PTL DEF IInv

\* auditLogger.js logs only what was answered ok, in the tenant it happened in,
\* and once.
THEOREM LogTellsTruthHolds == CatalogSpec => []LogTellsTruth
  <1>1. IInv => LogTellsTruth
    <2> SUFFICES ASSUME IInv, NEW t \in Tenants, NEW i \in 1..Len(logs[t])
                 PROVE  /\ Tenant(logs[t][i]) = t /\ Exists(logs[t][i])
                        /\ result[logs[t][i]] = "ok"
                        /\ logs[t][i] \in wrote \/ call[logs[t][i]].op = "delete"
                        /\ \A j \in 1..Len(logs[t]) : logs[t][j] = logs[t][i] => j = i
      BY DEF LogTellsTruth
    <2>1. logs[t][i] \in Requests
      BY ElementOfSeq DEF IInv, CatalogTypeOK
    <2>2. audit[logs[t][i]] = "written" /\ Tenant(logs[t][i]) = t
      BY DEF IInv, Entries
    <2>3. /\ Exists(logs[t][i]) /\ result[logs[t][i]] = "ok"
          /\ logs[t][i] \in wrote \/ call[logs[t][i]].op = "delete"
      BY <2>1, <2>2 DEF IInv, Facts
    <2> QED
      BY <2>2, <2>3 DEF IInv, Unique
  <1> QED
    BY <1>1, CatalogInductive, PTL
================================================================================
