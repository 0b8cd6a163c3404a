------------------------------ MODULE UnitBooking ------------------------------
(***************************************************************************)
(* The units of one tenant: the mutating handlers of unit.controller.js    *)
(* with the service, the repository and the audit middleware they call.    *)
(*                                                                         *)
(* The server is one Node process, so a handler runs alone between two     *)
(* awaits and every await is a point where another handler, or the         *)
(* database, may move.  Each action below is one such segment: a statement *)
(* that PostgreSQL executes (a single autocommitted SELECT, UPDATE or      *)
(* INSERT), or the code that runs when its promise settles.                *)
(*                                                                         *)
(* A row is abstracted to the columns the properties tell apart: status,   *)
(* booked_by, is_active and unit_number, by which lists are sorted and     *)
(* which stands for all the columns that only PATCH changes.  booked_at    *)
(* and sold_at change exactly with booked_by and status.  A request is     *)
(* admitted here once authentication, tenant resolution, validation and    *)
(* checkPermission have let it through.                                    *)
(*                                                                         *)
(* A definition commented as a "Variant" is not the code: it is a mistake  *)
(* the code could plausibly have made, put in the place of the definition  *)
(* below it to see that the properties would notice.                       *)
(***************************************************************************)

EXTENDS Naturals

CONSTANTS
    Requests,   \* requests the server receives, each once
    Users,      \* ids of the users with the book permission (Admin and Sales)
    Admins,     \* those of them with the Admin role
    Units,      \* ids of units, used and not yet used
    Numbers,    \* values of unit_number, the column that PATCH sets besides is_active
    Ops,        \* operations that are called: the routes, and markAsSold
    Faults,     \* what may go wrong: "sql", "ack", "crash"
    None        \* SQL NULL, a key left out of a JSON body, no request yet

AllOps == {"create", "update", "book", "delete", "sell"}
Statuses == {"Available", "Booked", "Sold"}

\* A row of <schema>.units, and the absence of one.
Row == [status : {"absent"} \cup Statuses, booked_by : Users \cup {None},
        unit_number : Numbers \cup {None}, is_active : BOOLEAN]
NoRow == [status |-> "absent", booked_by |-> None,
          unit_number |-> None, is_active |-> FALSE]
NewRow(n) == [status |-> "Available", booked_by |-> None,
              unit_number |-> n, is_active |-> TRUE]

ASSUME UnitBookingAssumption ==
    /\ Admins \subseteq Users
    /\ Ops \subseteq AllOps
    /\ Faults \subseteq {"sql", "ack", "crash"}
    /\ None \notin Users \cup Units \cup Numbers
    /\ None \notin BOOLEAN
    /\ None \notin Row \cup [unit : Units, user : Users]
    /\ None \notin [status : Statuses, is_active : BOOLEAN, unit_number : Numbers]

\* The body of a request: the columns it sets, None where it leaves one out.
Patch == [unit_number : Numbers \cup {None}, is_active : BOOLEAN \cup {None}]
NoPatch == [unit_number |-> None, is_active |-> None]

\* What a request can ask for: POST takes a body and no id, PATCH a body with
\* at least one key, the rest an id only.  Only an Admin passes requireAdmin.
Calls ==
    [op : {"create"}, user : Admins, unit : {None},
     patch : [unit_number : Numbers, is_active : {None}]]
    \cup [op : {"update"}, user : Admins, unit : Units, patch : Patch \ {NoPatch}]
    \cup [op : {"delete"}, user : Admins, unit : Units, patch : {NoPatch}]
    \cup [op : {"book", "sell"}, user : Users, unit : Units, patch : {NoPatch}]

NoCall == [op |-> "none", user |-> None, unit |-> None, patch |-> NoPatch]

VARIABLES
    units,      \* the units table
    auditLogs,  \* the audit_logs table
    pc,         \* where each request's handler is suspended
    call,       \* req.params, req.body and req.user of each request
    old,        \* oldUnit, the row the controller read first
    new,        \* the row returned by the write
    result,     \* how the request is to be answered
    scheduled,  \* audit entries handed to setImmediate and not yet inserted
    before,     \* history: the row a request's write replaced, None if no write
    struck      \* history: the requests that a fault has hit

vars == <<units, auditLogs, pc, call, old, new, result, scheduled, before, struck>>

\* Ghost and handler-local variables apart from pc and result.
locals == <<call, old, new, before, struck>>

InFlight == {"readOld", "read", "write", "answer"}
Results == {"ok", "refused", "notFound", "serverError"}

Stored(u) == units[u].status # "absent"
Unit(r) == call[r].unit
Op(r) == call[r].op

Init ==
    /\ units \in [Units -> {NoRow} \cup {NewRow(n) : n \in Numbers}]
    /\ auditLogs = {}
    /\ pc = [r \in Requests |-> "idle"]
    /\ call = [r \in Requests |-> NoCall]
    /\ old = [r \in Requests |-> None]
    /\ new = [r \in Requests |-> None]
    /\ result = [r \in Requests |-> "none"]
    /\ scheduled = {}
    /\ before = [r \in Requests |-> None]
    /\ struck = {}

--------------------------------------------------------------------------------
\* The controller and the service up to the write.

\* createUnit inserts at once, markAsSold starts in the service, the other
\* handlers first read the row they will show as oldValues.
FirstStep(op) ==
    CASE op = "create" -> "write"
      [] op = "sell"   -> "read"
      [] OTHER         -> "readOld"

Receive(r) ==
    /\ pc[r] = "idle"
    /\ \E c \in Calls :
          /\ c.op \in Ops
          /\ call' = [call EXCEPT ![r] = c]
          /\ pc' = [pc EXCEPT ![r] = FirstStep(c.op)]
    /\ UNCHANGED <<units, auditLogs, old, new, result, scheduled, before, struck>>

\* A fault hits the requests in R.
Struck(R) == struck' = struck \cup R

\* The handler knows its answer and has not yet sent it.
Decide(r, res) ==
    /\ pc' = [pc EXCEPT ![r] = "answer"]
    /\ result' = [result EXCEPT ![r] = res]

ReadOld(r) ==
    /\ pc[r] = "readOld"
    /\ Stored(Unit(r))
    /\ old' = [old EXCEPT ![r] = units[Unit(r)]]
    /\ pc' = [pc EXCEPT ![r] = "read"]
    /\ UNCHANGED <<units, auditLogs, call, new, result, scheduled, before, struck>>

\* What the service asks of the row it reads again before the write.
MayWrite(r, row) ==
    /\ Op(r) = "book" => row.status = "Available"
    /\ Op(r) = "sell" => row.status # "Sold"

ReadUnit(r) ==
    /\ pc[r] = "read"
    /\ Stored(Unit(r))
    /\ MayWrite(r, units[Unit(r)])
    /\ pc' = [pc EXCEPT ![r] = "write"]
    /\ UNCHANGED <<units, auditLogs, result, scheduled, locals>>

RefuseTaken(r) ==
    /\ pc[r] = "read"
    /\ Op(r) = "book"
    /\ Stored(Unit(r))
    /\ units[Unit(r)].status # "Available"
    /\ Decide(r, "refused")
    /\ UNCHANGED <<units, auditLogs, scheduled, locals>>

AlreadySold(r) ==
    /\ pc[r] = "read"
    /\ Op(r) = "sell"
    /\ units[Unit(r)].status = "Sold"
    /\ new' = [new EXCEPT ![r] = units[Unit(r)]]
    /\ Decide(r, "ok")
    /\ UNCHANGED <<units, auditLogs, scheduled, call, old, before, struck>>

\* findById returns null for a row that is not there, and also, because it
\* swallows the error, when the SELECT fails.
NotFound(r) ==
    /\ pc[r] \in {"readOld", "read"}
    /\ \/ ~Stored(Unit(r)) /\ UNCHANGED struck
       \/ "sql" \in Faults /\ Struck({r})
    /\ Decide(r, "notFound")
    /\ UNCHANGED <<units, auditLogs, scheduled, call, old, new, before>>

--------------------------------------------------------------------------------
\* The write: one autocommitted statement of the repository.

\* Variant: a statement whose acknowledgement is lost is sent again, and finds
\* its own first execution in the way.
CommitAndRetry(r, u, row) ==
    /\ units' = [units EXCEPT ![u] = row]
    /\ before' = [before EXCEPT ![r] = units[u]]
    /\ \/ /\ new' = [new EXCEPT ![r] = row]
          /\ Decide(r, "ok")
          /\ UNCHANGED struck
       \/ /\ "ack" \in Faults
          /\ Decide(r, "refused")
          /\ Struck({r})
          /\ UNCHANGED new
    /\ UNCHANGED <<auditLogs, old, scheduled>>

\* PostgreSQL commits row u := row for request r.  The promise resolves and the
\* handler goes on, or the connection breaks after the commit and it rejects:
\* a rejected statement is answered 500, except that softDelete swallows it.
Commit(r, u, row) ==
    /\ units' = [units EXCEPT ![u] = row]
    /\ before' = [before EXCEPT ![r] = units[u]]
    /\ \/ /\ new' = [new EXCEPT ![r] = row]
          /\ Decide(r, "ok")
          /\ UNCHANGED struck
       \/ /\ "ack" \in Faults
          /\ Decide(r, IF Op(r) = "delete" THEN "ok" ELSE "serverError")
          /\ Struck({r})
          /\ UNCHANGED new
    /\ UNCHANGED <<auditLogs, old, scheduled>>

\* The sequence hands out an id that no row has.
InsertUnit(r) ==
    /\ pc[r] = "write"
    /\ Op(r) = "create"
    /\ \E u \in Units :
          /\ ~Stored(u)
          /\ Commit(r, u, NewRow(call[r].patch.unit_number))
          /\ call' = [call EXCEPT ![r].unit = u]

\* INSERT names a project that does not exist: the foreign key refuses it.
InsertRejected(r) ==
    /\ pc[r] = "write"
    /\ Op(r) = "create"
    /\ Decide(r, "serverError")
    /\ UNCHANGED <<units, auditLogs, scheduled, locals>>

\* Variant: the DTO of PATCH starts from the defaults of the DTO of POST.
PatchedWithDefaults(row, patch) ==
    [row EXCEPT !.unit_number = IF patch.unit_number = None THEN @ ELSE patch.unit_number,
                !.status = "Available"]

\* SET only the columns the DTO carries; status is not one of them.
Patched(row, patch) ==
    [row EXCEPT !.unit_number = IF patch.unit_number = None THEN @ ELSE patch.unit_number,
                !.is_active = IF patch.is_active = None THEN @ ELSE patch.is_active]

\* Variant: the whole row is saved back as the handler read it.
UpdateWholeRow(r) ==
    /\ pc[r] = "write"
    /\ Op(r) = "update"
    /\ Commit(r, Unit(r), Patched(old[r], call[r].patch))
    /\ UNCHANGED call

UpdateUnit(r) ==
    /\ pc[r] = "write"
    /\ Op(r) = "update"
    /\ Stored(Unit(r))
    /\ Commit(r, Unit(r), Patched(units[Unit(r)], call[r].patch))
    /\ UNCHANGED call

\* Variant: UPDATE ... WHERE id = :id, trusting the check made before.
BookUnguarded(r) ==
    /\ pc[r] = "write"
    /\ Op(r) = "book"
    /\ Commit(r, Unit(r), [units[Unit(r)] EXCEPT !.status = "Booked",
                                                 !.booked_by = call[r].user])
    /\ UNCHANGED call

BookUnit(r) ==
    /\ pc[r] = "write"
    /\ Op(r) = "book"
    /\ units[Unit(r)].status = "Available"
    /\ Commit(r, Unit(r), [units[Unit(r)] EXCEPT !.status = "Booked",
                                                 !.booked_by = call[r].user])
    /\ UNCHANGED call

\* Variant: the service does not look at the null it gets back.
BookMissIgnored(r) ==
    /\ pc[r] = "write"
    /\ Op(r) = "book"
    /\ units[Unit(r)].status # "Available"
    /\ Decide(r, "ok")
    /\ UNCHANGED <<units, auditLogs, scheduled, locals>>

\* UPDATE ... WHERE status = 'Available' matches no row: RETURNING is empty.
BookMisses(r) ==
    /\ pc[r] = "write"
    /\ Op(r) = "book"
    /\ units[Unit(r)].status # "Available"
    /\ Decide(r, "refused")
    /\ UNCHANGED <<units, auditLogs, scheduled, locals>>

MarkAsSold(r) ==
    /\ pc[r] = "write"
    /\ Op(r) = "sell"
    /\ units[Unit(r)].status \in {"Available", "Booked"}
    /\ Commit(r, Unit(r), [units[Unit(r)] EXCEPT !.status = "Sold"])
    /\ UNCHANGED call

SellMisses(r) ==
    /\ pc[r] = "write"
    /\ Op(r) = "sell"
    /\ units[Unit(r)].status = "Sold"
    /\ Decide(r, "refused")
    /\ UNCHANGED <<units, auditLogs, scheduled, locals>>

\* Variant: only an active row is marked, and nobody counts the rows.
SoftDeleteActive(r) ==
    /\ pc[r] = "write"
    /\ Op(r) = "delete"
    /\ \/ /\ units[Unit(r)].is_active
          /\ Commit(r, Unit(r), [units[Unit(r)] EXCEPT !.is_active = FALSE])
          /\ UNCHANGED call
       \/ /\ ~units[Unit(r)].is_active
          /\ Decide(r, "ok")
          /\ UNCHANGED <<units, auditLogs, scheduled, locals>>

\* Variant: oldUnit, with the flag cleared, is saved back.
SoftDeleteWholeRow(r) ==
    /\ pc[r] = "write"
    /\ Op(r) = "delete"
    /\ Commit(r, Unit(r), [old[r] EXCEPT !.is_active = FALSE])
    /\ UNCHANGED call

SoftDelete(r) ==
    /\ pc[r] = "write"
    /\ Op(r) = "delete"
    /\ Stored(Unit(r))
    /\ Commit(r, Unit(r), [units[Unit(r)] EXCEPT !.is_active = FALSE])
    /\ UNCHANGED call

\* The statement fails without effect.  Every repository method rethrows (500)
\* but softDelete, which returns false to a service that does not look at it.
WriteFails(r) ==
    /\ "sql" \in Faults
    /\ pc[r] = "write"
    /\ Decide(r, IF Op(r) = "delete" THEN "ok" ELSE "serverError")
    /\ Struck({r})
    /\ UNCHANGED <<units, auditLogs, scheduled, call, old, new, before>>

--------------------------------------------------------------------------------
\* The answer and the audit entry.

\* Variant: the controller does not fill res.locals.auditData.
EntryWithoutData(r) ==
    [req |-> r, action |-> Op(r), user_id |-> call[r].user,
     entity_id |-> None, old_values |-> None, new_values |-> None]

\* createAuditLog's row.  It is inserted from req and res.locals alone, so it
\* can be built when the answer is sent.  A create has no oldValues and a
\* delete no newValues.  req tells entries of different requests apart.
Entry(r) ==
    [req |-> r, action |-> Op(r), user_id |-> call[r].user,
     entity_id |-> Unit(r), old_values |-> old[r],
     new_values |-> IF Op(r) = "delete" THEN None ELSE new[r]]

\* Variants: bookUnit does not call next(); the controller has no branch for a
\* BadRequestError.
RespondWithoutNext(r) ==
    /\ pc[r] = "answer"
    /\ pc' = [pc EXCEPT ![r] = "done"]
    /\ scheduled' = IF result[r] = "ok" /\ Op(r) \notin {"book", "sell"}
                    THEN scheduled \cup {Entry(r)} ELSE scheduled
    /\ UNCHANGED <<units, auditLogs, result, locals>>

RespondUnlessRefused(r) ==
    /\ pc[r] = "answer"
    /\ result[r] # "refused"
    /\ pc' = [pc EXCEPT ![r] = "done"]
    /\ scheduled' = IF result[r] = "ok" /\ Op(r) # "sell"
                    THEN scheduled \cup {Entry(r)} ELSE scheduled
    /\ UNCHANGED <<units, auditLogs, result, locals>>

\* Send the answer and, on success, run auditLog, which leaves the insert to
\* setImmediate.  markAsSold has no route and so neither controller nor audit.
Respond(r) ==
    /\ pc[r] = "answer"
    /\ pc' = [pc EXCEPT ![r] = "done"]
    /\ scheduled' = IF result[r] = "ok" /\ Op(r) # "sell"
                    THEN scheduled \cup {Entry(r)} ELSE scheduled
    /\ UNCHANGED <<units, auditLogs, result, locals>>

\* The callbacks take connections from the pool and their inserts commit in
\* any order.
InsertAudit(r) ==
    \E e \in scheduled :
        /\ e.req = r
        /\ auditLogs' = auditLogs \cup {e}
        /\ scheduled' = scheduled \ {e}
        /\ UNCHANGED <<units, pc, result, locals>>

\* createAuditLog catches the error and only prints it.
AuditFails(r) ==
    /\ "sql" \in Faults
    /\ \E e \in scheduled : e.req = r /\ scheduled' = scheduled \ {e}
    /\ Struck({r})
    /\ UNCHANGED <<units, auditLogs, pc, result, call, old, new, before>>

--------------------------------------------------------------------------------
\* The process dies and is started again: every suspended handler is gone and
\* its client sees a broken connection; the setImmediate queue is gone; the
\* database keeps what was committed.
Crash ==
    /\ "crash" \in Faults
    /\ scheduled # {} \/ \E r \in Requests : pc[r] \in InFlight
    /\ pc' = [r \in Requests |-> IF pc[r] \in InFlight THEN "lost" ELSE pc[r]]
    /\ scheduled' = {}
    /\ Struck({r \in Requests : pc[r] \in InFlight} \cup {e.req : e \in scheduled})
    /\ UNCHANGED <<units, auditLogs, result, call, old, new, before>>

\* No request is open and none is left to arrive.
Quiet ==
    /\ \A r \in Requests : pc[r] \in {"done", "lost"}
    /\ scheduled = {}
    /\ UNCHANGED vars

\* A step of the handler of r, from its first await to its answer.
Handle(r) ==
    \/ ReadOld(r) \/ ReadUnit(r) \/ RefuseTaken(r) \/ AlreadySold(r) \/ NotFound(r)
    \/ InsertUnit(r) \/ InsertRejected(r) \/ UpdateUnit(r)
    \/ BookUnit(r) \/ BookMisses(r) \/ MarkAsSold(r) \/ SellMisses(r)
    \/ SoftDelete(r) \/ WriteFails(r)
    \/ Respond(r)

Audit(r) == InsertAudit(r) \/ AuditFails(r)

Next ==
    \/ \E r \in Requests : Receive(r) \/ Handle(r) \/ Audit(r)
    \/ Crash
    \/ Quiet

Spec == Init /\ [][Next]_vars

\* Every promise a handler awaits settles (a statement completes, fails, or
\* fails to get a connection within 30 s) and the event loop runs the handler
\* then, and every setImmediate callback.  Nothing obliges a request to arrive.
Fairness == \A r \in Requests : WF_vars(Handle(r)) /\ WF_vars(Audit(r))

FairSpec == Spec /\ Fairness
--------------------------------------------------------------------------------
\* Properties.

Entries ==
    [req : Requests, action : {"create", "update", "book", "delete"},
     user_id : Users, entity_id : Units,
     old_values : Row \cup {None}, new_values : Row \cup {None}]

\* Every variable keeps its type: rows are rows, a suspended handler is at one
\* of the awaits of the code, an audit entry has the columns of audit_logs.
TypeOK ==
    /\ units \in [Units -> Row]
    /\ auditLogs \subseteq Entries
    /\ pc \in [Requests -> {"idle", "done", "lost"} \cup InFlight]
    /\ call \in [Requests -> [op : AllOps \cup {"none"}, user : Users \cup {None},
                               unit : Units \cup {None}, patch : Patch]]
    /\ old \in [Requests -> Row \cup {None}]
    /\ new \in [Requests -> Row \cup {None}]
    /\ result \in [Requests -> Results \cup {"none"}]
    /\ scheduled \subseteq Entries
    /\ before \in [Requests -> Row \cup {None}]
    /\ struck \subseteq Requests

Won(r) == Op(r) = "book" /\ result[r] = "ok"

\* Of all the bookings of a unit at most one is told it succeeded, and from then
\* on, whatever PATCH, DELETE or sale runs beside it, the row stays booked (or
\* sold) for that user.  The service's read of the status is stale by the time
\* of the UPDATE (unit.service.js:78-88): the WHERE clause has to hold the line.
OneWinner ==
    \A r \in Requests : Won(r) =>
        /\ units[Unit(r)].status \in {"Booked", "Sold"}
        /\ units[Unit(r)].booked_by = call[r].user
        /\ \A s \in Requests : Won(s) /\ Unit(s) = Unit(r) => s = r

\* Did the write of s take the unit u off the market?
TookUnit(s, u) == Op(s) \in {"book", "sell"} /\ Unit(s) = u /\ before[s] # None

\* A booking is refused (400) only when some other request really took the unit:
\* two simultaneous bookings of a free unit never both lose.
RefusalJustified ==
    \A r \in Requests : Op(r) = "book" /\ result[r] = "refused" =>
        \E s \in Requests \ {r} : TookUnit(s, Unit(r))

Rank(s) == CASE s = "absent" -> 0 [] s = "Available" -> 1
             [] s = "Booked" -> 2 [] s = "Sold" -> 3

\* No step takes a unit back: the status only moves towards Sold, a row never
\* disappears and the user a unit is booked by never changes.  A PATCH built
\* from a row read earlier would break it if it wrote more than its own columns.
NeverTakenBack ==
    [][\A u \in Units :
          /\ Rank(units[u].status) <= Rank(units'[u].status)
          /\ units[u].booked_by # None => units'[u].booked_by = units[u].booked_by]_vars

\* A BOOK entry of the audit trail shows a booking that happened: a free unit
\* before, the unit booked by the entry's user after, the user the row still
\* names; and a unit has one BOOK entry at most, whatever the order the entries
\* are inserted in and the requests that were running when they were built.
BookingTrail ==
    \A e \in auditLogs \cup scheduled : e.action = "book" =>
        /\ e.old_values.status = "Available"
        /\ e.new_values.status = "Booked"
        /\ e.new_values.booked_by = e.user_id
        /\ units[e.entity_id].booked_by = e.user_id
        /\ \A f \in auditLogs \cup scheduled :
              f.action = "book" /\ f.entity_id = e.entity_id => f = e

\* Nothing of r is left to run.
Settled(r) ==
    /\ pc[r] \in {"done", "lost"}
    /\ \A e \in scheduled : e.req # r

\* The audit trail tells what happened, no more and no less: once nothing of a
\* route's request is left to run, it has exactly one entry if its write committed
\* and none if it did not ("Complete audit trail of all data mutations",
\* API_DOCUMENTATION.html:276).  Only a request that a fault has hit itself may
\* lack its entry, or have one for a delete that failed: a failed insert, a
\* swallowed error or a crash never costs another request its entry, although
\* the inserts of all of them are callbacks that nobody awaits
\* (auditLogger.js:92).
AuditTrailComplete ==
    \A r \in Requests \ struck : Settled(r) =>
        LET entries == {e \in auditLogs : e.req = r}
        IN  IF before[r] # None /\ Op(r) # "sell"
            THEN \E e \in entries : entries = {e}
            ELSE entries = {}

\* The old_values of an UPDATE or DELETE entry are the row its write replaced
\* ("Previous values (for UPDATE and DELETE actions)",
\* 004-create-audit-logs-table.js:52).
OldValuesExact ==
    \A e \in auditLogs : e.action \in {"update", "delete"} =>
        e.old_values = before[e.req]

\* Every request that reached a handler is answered, unless the process died
\* under it: no interleaving leaves a handler waiting.
EveryRequestEnds ==
    \A r \in Requests : pc[r] \in InFlight ~> pc[r] \in {"done", "lost"}

\* A mutation answered with success gets its audit entry in the end, although
\* nothing waits for the insert, or a fault has hit this very request.
AuditFollows ==
    \A r \in Requests :
        pc[r] = "done" /\ result[r] = "ok" /\ Op(r) # "sell"
            ~> r \in struck \/ \E e \in auditLogs : e.req = r

\* The handlers implement the atomic ledger: a booking is decided at its UPDATE,
\* or where it is found to be too late.
Ledger == INSTANCE BookingLedger WITH
    status <- [u \in Units |-> units[u].status],
    owner <- [u \in Units |-> units[u].booked_by],
    want <- [r \in Requests |-> IF Op(r) = "book"
                 THEN [unit |-> Unit(r), user |-> call[r].user] ELSE None],
    verdict <- [r \in Requests |-> IF Op(r) = "book" THEN result[r] ELSE "none"]

\* Seen from its callers, the booking component is the atomic ledger: each
\* booking takes effect at one instant between its arrival and its answer.
BookingsAreAtomic == Ledger!Spec

\* The table as lists and statistics see it, and what they take its steps to be.
Seen == [u \in Units |-> IF Stored(u) THEN [status |-> units[u].status,
                                           is_active |-> units[u].is_active,
                                           unit_number |-> units[u].unit_number] ELSE None]
Rows == INSTANCE UnitRows

\* Whatever handlers interleave and whichever row each of them read, the table that
\* lists and statistics see, with the column they are sorted by, goes from free units
\* at the start by the steps that TenantReports lets it take, one row and one
\* statement of unit.repository.js at a time: the handlers give readers no change to
\* meet that is not met there.
UnitsStepwise ==
    /\ Seen \in [Units -> {None} \cup {Rows!NewUnit(n) : n \in Numbers}]
    /\ [][Rows!Changes(Seen, Seen')]_Seen
================================================================================
