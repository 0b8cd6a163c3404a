----------------------------- MODULE ProjectCatalog -----------------------------
(***************************************************************************)
(* The projects of the tenants and the audit entries about them:           *)
(* project.controller.js with the service, the repository and the audit    *)
(* middleware it calls.                                                    *)
(*                                                                         *)
(* Each action is one statement that PostgreSQL executes, or the code that *)
(* runs when its promise settles, as in UnitBooking.  A request is         *)
(* admitted once authentication, tenantResolver, requireAdmin, validation  *)
(* and checkPermission have let it through.  GET /:id is the read that     *)
(* every PATCH begins with, and no more.                                   *)
(*                                                                         *)
(* A table is the sequence of its rows in the order of their created_at;   *)
(* the place of a row is its id.  Of the columns, name stands for all      *)
(* (name, location, description, total_units) that a body gives and that   *)
(* nothing else depends on.  A definition commented as a "Variant" is not  *)
(* the code: it is a plausible mistake that the properties are tried       *)
(* against.                                                                *)
(***************************************************************************)
EXTENDS Naturals, Sequences

CONSTANTS
    Requests,   \* requests about one project, each once
    Tenants,    \* tenants that exist or will
    Names,      \* values of the column name
    Stati,      \* values of the column status
    Planning,   \* the first of them
    Bodies,     \* bodies of POST: what they give, None where a key is left out
    Patches,    \* bodies of PATCH, the same
    Founded,    \* the projects that each tenant has at the start
    Ops,        \* operations that are called
    Faults,     \* what may go wrong: "sql", "ack"
    None

AllOps == {"create", "update", "delete"}
Columns == {"name", "status", "is_active"}

Domain(c) ==
    CASE c = "name"   -> Names
      [] c = "status" -> Stati
      [] OTHER        -> BOOLEAN

Values == Names \cup Stati \cup BOOLEAN

\* A row of <schema>.projects, and what a body sets of it.
Row == {row \in [Columns -> Values] : \A c \in Columns : row[c] \in Domain(c)}
Sets == {s \in [Columns -> Values \cup {None}] :
            \A c \in Columns : s[c] \in Domain(c) \cup {None}}
Nothing == [c \in Columns |-> None]

ASSUME ProjectCatalogAssumption ==
    /\ Planning \in Stati
    /\ Bodies \subseteq {s \in Sets : s["name"] # None /\ s["is_active"] = None}
    /\ Patches \subseteq Sets \ {Nothing}
    /\ Founded \in [Tenants -> Seq(Row)]
    /\ Ops \subseteq AllOps
    /\ Faults \subseteq {"sql", "ack"}
    /\ None \notin Values \cup Row

\* UPDATE of a row: SET the columns that are given, leave the others alone.
Set(row, sets) == [c \in Columns |-> IF sets[c] = None THEN row[c] ELSE sets[c]]

\* Variant: the DTO gives no default for status.
NewRowWithoutDefault(body) ==
    [c \in Columns |-> IF c = "is_active" THEN TRUE ELSE body[c]]

\* What CreateProjectDto and the INSERT make of a body.
NewRow(body) ==
    [c \in Columns |-> CASE c = "name"   -> body["name"]
                         [] c = "status" -> IF body["status"] = None THEN Planning
                                            ELSE body["status"]
                         [] OTHER        -> TRUE]

SoftDeleted == [c \in Columns |-> IF c = "is_active" THEN FALSE ELSE None]

\* req.params, req.body and the tenant of req.user.  0 stands for no id.
Calls ==
    [op : {"create"}, tenant : Tenants, id : {0}, sets : Bodies]
    \cup [op : {"update"}, tenant : Tenants, id : Nat \ {0}, sets : Patches]
    \cup [op : {"delete"}, tenant : Tenants, id : Nat \ {0}, sets : {SoftDeleted}]

NoCall == [op |-> "none", tenant |-> None, id |-> 0, sets |-> Nothing]

VARIABLES
    projects,   \* the projects table of each tenant
    logs,       \* the audit_logs table of each tenant: whose entry each row is
    pc,         \* where each request's handler is suspended
    call,       \* what each request asks
    found,      \* existingProject, the row the service read
    result,     \* how the request is to be answered
    audit,      \* what became of its audit entry
    wrote       \* history: the requests whose write is committed

catalogVars == <<projects, logs, pc, call, found, result, audit, wrote>>

CatalogInit ==
    /\ projects = Founded
    /\ logs = [t \in Tenants |-> <<>>]
    /\ pc = [r \in Requests |-> "idle"]
    /\ call = [r \in Requests |-> NoCall]
    /\ found = [r \in Requests |-> None]
    /\ result = [r \in Requests |-> "none"]
    /\ audit = [r \in Requests |-> "none"]
    /\ wrote = {}

Tenant(r) == call[r].tenant
Table(r) == projects[Tenant(r)]
Exists(r) == call[r].id \in 1..Len(Table(r))

--------------------------------------------------------------------------------
\* The controller and the service up to the write.

FirstStep(op) == IF op = "create" THEN "write" ELSE "readOld"

\* Ids one beyond the last stand for all that no row has.
Receive(r) ==
    /\ pc[r] = "idle"
    /\ \E op \in Ops, t \in Tenants, sets \in Bodies \cup Patches \cup {SoftDeleted} :
          \E id \in 0..Len(projects[t]) + 1 :
              LET c == [op |-> op, tenant |-> t, id |-> id, sets |-> sets]
              IN  /\ c \in Calls
                  /\ call' = [call EXCEPT ![r] = c]
                  /\ pc' = [pc EXCEPT ![r] = FirstStep(op)]
    /\ UNCHANGED <<projects, logs, found, result, audit, wrote>>

\* The handler knows its answer and has not yet sent it.
Decide(r, res) ==
    /\ pc' = [pc EXCEPT ![r] = "answer"]
    /\ result' = [result EXCEPT ![r] = res]

\* The controller's getProjectById, for the oldValues of the entry.
ReadOld(r) ==
    /\ pc[r] = "readOld"
    /\ Exists(r)
    /\ pc' = [pc EXCEPT ![r] = "find"]
    /\ UNCHANGED <<projects, logs, call, found, result, audit, wrote>>

\* The service's findById.
FindProject(r) ==
    /\ pc[r] = "find"
    /\ Exists(r)
    /\ found' = [found EXCEPT ![r] = Table(r)[call[r].id]]
    /\ pc' = [pc EXCEPT ![r] = "write"]
    /\ UNCHANGED <<projects, logs, call, result, audit, wrote>>

\* findById returns null for a row that is not there and, because it swallows the
\* error, when the SELECT fails.
NotFound(r) ==
    /\ pc[r] \in {"readOld", "find"}
    /\ ~Exists(r) \/ "sql" \in Faults
    /\ Decide(r, "notFound")
    /\ UNCHANGED <<projects, logs, call, found, audit, wrote>>

--------------------------------------------------------------------------------
\* The write: one autocommitted statement of the repository.

\* The error of a statement is answered 500, but softDelete swallows it.
AfterError(r) == IF call[r].op = "delete" THEN "ok" ELSE "serverError"

\* PostgreSQL commits, and the promise resolves or, when the connection breaks
\* after the commit, rejects.
Commit(r) ==
    /\ wrote' = wrote \cup {r}
    /\ \/ Decide(r, "ok")
       \/ "ack" \in Faults /\ Decide(r, AfterError(r))
    /\ UNCHANGED <<logs, found, audit>>

InsertProject(r) ==
    /\ pc[r] = "write"
    /\ call[r].op = "create"
    /\ projects' = [projects EXCEPT ![Tenant(r)] = Append(@, NewRow(call[r].sets))]
    /\ call' = [call EXCEPT ![r].id = Len(Table(r)) + 1]
    /\ Commit(r)

\* Variant: the whole row is saved back as the service read it.
UpdateWholeRow(r) ==
    /\ pc[r] = "write"
    /\ call[r].op \in {"update", "delete"}
    /\ projects' = [projects EXCEPT ![Tenant(r)][call[r].id] =
                       Set(found[r], call[r].sets)]
    /\ Commit(r)
    /\ UNCHANGED call

\* update and softDelete: UPDATE ... SET the given columns WHERE id = :id.
UpdateProject(r) ==
    /\ pc[r] = "write"
    /\ call[r].op \in {"update", "delete"}
    /\ projects' = [projects EXCEPT ![Tenant(r)][call[r].id] = Set(@, call[r].sets)]
    /\ Commit(r)
    /\ UNCHANGED call

WriteFails(r) ==
    /\ "sql" \in Faults
    /\ pc[r] = "write"
    /\ Decide(r, AfterError(r))
    /\ UNCHANGED <<projects, logs, call, found, audit, wrote>>

--------------------------------------------------------------------------------
\* The answer and the audit entry.

\* Variant: next() is called in a finally block, whatever the answer.
RespondAndLog(r) ==
    /\ pc[r] = "answer"
    /\ pc' = [pc EXCEPT ![r] = "done"]
    /\ found' = [found EXCEPT ![r] = None]
    /\ audit' = [audit EXCEPT ![r] = "due"]
    /\ UNCHANGED <<projects, logs, call, result, wrote>>

\* After an ok answer next() runs the audit middleware.
Respond(r) ==
    /\ pc[r] = "answer"
    /\ pc' = [pc EXCEPT ![r] = "done"]
    /\ found' = [found EXCEPT ![r] = None]
    /\ audit' = [audit EXCEPT ![r] = IF result[r] = "ok" THEN "due" ELSE "none"]
    /\ UNCHANGED <<projects, logs, call, result, wrote>>

WriteEntry(r) ==
    /\ audit[r] = "due"
    /\ audit' = [audit EXCEPT ![r] = "written"]
    /\ logs' = [logs EXCEPT ![Tenant(r)] = Append(@, r)]
    /\ UNCHANGED <<projects, pc, call, found, result, wrote>>

\* An error of createAuditLog is printed.
LoseEntry(r) ==
    /\ "sql" \in Faults
    /\ audit[r] = "due"
    /\ audit' = [audit EXCEPT ![r] = "failed"]
    /\ UNCHANGED <<projects, logs, pc, call, found, result, wrote>>

Handle(r) ==
    \/ ReadOld(r) \/ FindProject(r) \/ NotFound(r)
    \/ InsertProject(r) \/ UpdateProject(r) \/ WriteFails(r)
    \/ Respond(r) \/ WriteEntry(r) \/ LoseEntry(r)

CatalogNext == \E r \in Requests : Receive(r) \/ Handle(r)

CatalogSpec == CatalogInit /\ [][CatalogNext]_catalogVars
--------------------------------------------------------------------------------
\* Properties.

CatalogTypeOK ==
    /\ projects \in [Tenants -> Seq(Row)]
    /\ logs \in [Tenants -> Seq(Requests)]
    /\ pc \in [Requests -> {"idle", "readOld", "find", "write", "answer", "done"}]
    /\ call \in [Requests -> [op : Ops \cup {"none"}, tenant : Tenants \cup {None},
                             id : Nat, sets : Sets]]
    /\ found \in [Requests -> Row \cup {None}]
    /\ result \in [Requests -> {"none", "ok", "notFound", "serverError"}]
    /\ audit \in [Requests -> {"none", "due", "written", "failed"}]
    /\ wrote \subseteq Requests

\* Requests q and r are about the same project.
SameProject(q, r) == Tenant(q) = Tenant(r) /\ call[q].id = call[r].id

\* No update is lost: what a committed create, PATCH or DELETE has put in a column
\* is there until another request that gives this column overwrites it.  A PATCH
\* that only read the row before (project.service.js:55) takes nothing back.
NoUpdateLost ==
    \A r \in wrote, c \in Columns :
        call[r].sets[c] # None =>
            \/ Table(r)[call[r].id][c] = call[r].sets[c]
            \/ \E q \in wrote \ {r} : SameProject(q, r) /\ call[q].sets[c] # None

\* The audit log tells what happened and whom it happened to: each entry is about
\* a request of this tenant that was answered ok, and no request has two.  An
\* entry of a write that is not there is one of a DELETE whose error
\* project.repository.js:175 swallowed.
LogTellsTruth ==
    \A t \in Tenants : \A i \in 1..Len(logs[t]) :
        LET r == logs[t][i]
        IN  /\ Tenant(r) = t /\ Exists(r) /\ result[r] = "ok"
            /\ r \in wrote \/ call[r].op = "delete"
            /\ \A j \in 1..Len(logs[t]) : logs[t][j] = r => j = i
================================================================================
