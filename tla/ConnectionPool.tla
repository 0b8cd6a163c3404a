----------------------------- MODULE ConnectionPool -----------------------------
(***************************************************************************)
(* The pool of connections that every statement of the server goes through *)
(* and the search path each connection was left with.                      *)
(*                                                                         *)
(* A statement outside a transaction takes a connection for itself and     *)
(* gives it back when it has run; requests that find none free wait in     *)
(* line, the first for 30 s at most.  createTenant keeps one connection    *)
(* for its transaction and takes another one for each statement beside it. *)
(* SET search_path stays on the connection it happened to run on.          *)
(*                                                                         *)
(* What a handler does with its rows is left out: a request is the list of *)
(* its statements (Script).  A definition commented as a "Variant" is not  *)
(* the code: it is a plausible mistake that the properties are tried       *)
(* against.                                                                *)
(***************************************************************************)
EXTENDS Naturals, Sequences, FiniteSets

CONSTANTS
    Requests,   \* requests the server receives, each once
    Conns,      \* connections of the pool (five in the code)
    Tenants,    \* the tenants' schemas
    Public,     \* the schema public
    Ops,        \* operations that are called
    Migrations, \* statements of the migrations of one tenant
    Queries,    \* statements of a handler on its tenant's tables
    Faults,     \* what may go wrong: "sql"
    None

AllOps == {"createTenant", "write", "list"}

ASSUME ConnectionPoolAssumption ==
    /\ IsFiniteSet(Conns)
    /\ Public \notin Tenants
    /\ None \notin Requests \cup Conns \cup Tenants
    /\ Ops \subseteq AllOps
    /\ Migrations \in Nat /\ Queries \in Nat
    /\ Faults \subseteq {"sql"}

Schemas == Tenants \cup {Public}

(***************************************************************************)
(* A statement is what it needs and the schema it is about:                *)
(*   own      a connection for itself; its error ends the handler          *)
(*   lenient  the same, but the repository catches the error               *)
(*   path     own, and sets the connection's search path to the schema     *)
(*   begin    a connection that the request keeps                          *)
(*   tx       runs on the connection kept                                  *)
(*   commit   runs on the connection kept, which goes back to the pool     *)
(***************************************************************************)
Kinds == {"own", "lenient", "path", "begin", "tx", "commit"}
Stmt(kind, schema) == [kind |-> kind, schema |-> schema]
Times(n, stmt) == [i \in 1..n |-> stmt]

\* usePublicSchema and createTenant: BEGIN, the look-up of the name, the tenant's
\* row, CREATE SCHEMA, the migrations, the admin, COMMIT, the row for the answer.
CreateTenantScript(t) ==
    <<Stmt("path", Public), Stmt("begin", Public), Stmt("own", Public),
      Stmt("tx", Public), Stmt("own", t), Stmt("path", t)>>
    \o Times(Migrations, Stmt("own", t))
    \o <<Stmt("tx", t), Stmt("commit", Public), Stmt("own", Public)>>

\* tenantResolver (two statements), the handler, createAuditLog (two).
WriteScript(t) ==
    <<Stmt("own", Public), Stmt("path", t)>>
    \o Times(Queries, Stmt("own", t))
    \o <<Stmt("path", t), Stmt("own", t)>>

\* tenantResolver, then the page and the total.
ListScript(t) ==
    <<Stmt("own", Public), Stmt("path", t), Stmt("lenient", t), Stmt("lenient", t)>>

Script(c) ==
    CASE c.op = "createTenant" -> CreateTenantScript(c.tenant)
      [] c.op = "write"        -> WriteScript(c.tenant)
      [] c.op = "list"         -> ListScript(c.tenant)
      [] OTHER                 -> <<>>

Calls == [op : Ops, tenant : Tenants]
NoCall == [op |-> "none", tenant |-> Public]

VARIABLES
    owner,  \* the pool: which request has each connection, None if it is free
    queue,  \* the pool: requests waiting for a connection, in order of arrival
    path,   \* the search path of each connection
    pc,     \* what each request does
    call,   \* what each request asks
    step,   \* the statement of its script it is at
    tx,     \* the connection of its open transaction
    on      \* the connection its statement runs on

vars == <<owner, queue, path, pc, call, step, tx, on>>

Init ==
    /\ owner = [c \in Conns |-> None]
    /\ queue = <<>>
    /\ path = [c \in Conns |-> Public]
    /\ pc = [r \in Requests |-> "idle"]
    /\ call = [r \in Requests |-> NoCall]
    /\ step = [r \in Requests |-> 1]
    /\ tx = [r \in Requests |-> None]
    /\ on = [r \in Requests |-> None]

Current(r) == Script(call[r])[step[r]]
Free(c) == owner[c] = None

--------------------------------------------------------------------------------
\* What the handler does when a statement has ended.

\* Outside a transaction a statement asks the pool and joins the line q; one with
\* the option transaction runs on the connection of that.
Start(r, i, q) ==
    /\ step' = [step EXCEPT ![r] = i]
    /\ IF Script(call'[r])[i].kind \in {"tx", "commit"}
       THEN /\ on' = [on EXCEPT ![r] = tx[r]]
            /\ pc' = [pc EXCEPT ![r] = "running"]
            /\ queue' = q
       ELSE /\ on' = [on EXCEPT ![r] = None]
            /\ pc' = [pc EXCEPT ![r] = "waiting"]
            /\ queue' = Append(q, r)

\* The handler has no statement left, or its catch block starts: createTenant's
\* rolls back what is still open.
Stop(r, q) ==
    /\ pc' = [pc EXCEPT ![r] = IF tx'[r] # None THEN "rollback" ELSE "done"]
    /\ on' = [on EXCEPT ![r] = None]
    /\ queue' = q
    /\ UNCHANGED step

GoOn(r, q) ==
    IF step[r] < Len(Script(call[r])) THEN Start(r, step[r] + 1, q) ELSE Stop(r, q)

Receive(r) ==
    /\ pc[r] = "idle"
    /\ \E c \in Calls : call' = [call EXCEPT ![r] = c]
    /\ Start(r, 1, queue)
    /\ UNCHANGED <<owner, path, tx>>

--------------------------------------------------------------------------------
\* Statements.

\* The pool serves the first in line.
Grant(c) ==
    /\ queue # <<>>
    /\ Free(c)
    /\ LET r == Head(queue)
       IN  /\ owner' = [owner EXCEPT ![c] = r]
           /\ on' = [on EXCEPT ![r] = c]
           /\ pc' = [pc EXCEPT ![r] = "running"]
    /\ queue' = Tail(queue)
    /\ UNCHANGED <<path, call, step, tx>>

\* Variant: tenantResolver keeps the connection whose search path it has set and
\* the handler gives it back at its end.
KeepPathConnection(r, kind) ==
    IF kind = "path" /\ tx[r] = None /\ step[r] < Len(Script(call[r]))
    THEN tx' = [tx EXCEPT ![r] = on[r]] /\ UNCHANGED owner
    ELSE IF step[r] = Len(Script(call[r]))
    THEN /\ owner' = [c \in Conns |-> IF owner[c] = r THEN None ELSE owner[c]]
         /\ tx' = [tx EXCEPT ![r] = None]
    ELSE IF kind \in {"begin", "tx", "commit"} THEN UNCHANGED <<tx, owner>>
    ELSE owner' = [owner EXCEPT ![on[r]] = None] /\ UNCHANGED tx

\* What becomes of the connection of a statement: BEGIN keeps it, a COMMIT that
\* has ended gives back the one kept, a statement of its own gives back its own.
HandBack(r, kind) ==
    CASE kind = "begin"  -> tx' = [tx EXCEPT ![r] = on[r]] /\ UNCHANGED owner
      [] kind = "tx"     -> UNCHANGED <<tx, owner>>
      [] kind = "commit" -> /\ owner' = [owner EXCEPT ![on[r]] = None]
                            /\ tx' = [tx EXCEPT ![r] = None]
      [] OTHER           -> owner' = [owner EXCEPT ![on[r]] = None] /\ UNCHANGED tx

Complete(r) ==
    /\ pc[r] = "running"
    /\ path' = IF Current(r).kind = "path"
               THEN [path EXCEPT ![on[r]] = Current(r).schema] ELSE path
    /\ UNCHANGED call
    /\ HandBack(r, Current(r).kind)
    /\ GoOn(r, queue)

\* The statement fails, and a BEGIN that fails has opened nothing.
StatementFails(r) ==
    /\ "sql" \in Faults
    /\ pc[r] = "running"
    /\ UNCHANGED <<path, call>>
    /\ HandBack(r, IF Current(r).kind = "begin" THEN "own" ELSE Current(r).kind)
    /\ IF Current(r).kind = "lenient" THEN GoOn(r, queue) ELSE Stop(r, queue)

\* Variant: the error of an acquire is answered without a rollback.
TimeoutUnrolled ==
    /\ queue # <<>>
    /\ \A c \in Conns : ~Free(c)
    /\ pc' = [pc EXCEPT ![Head(queue)] = "done"]
    /\ queue' = Tail(queue)
    /\ UNCHANGED <<owner, path, call, step, tx, on>>

\* Variant: who has waited for 30 s asks again, behind the others.
AcquireAgain ==
    /\ queue # <<>>
    /\ \A c \in Conns : ~Free(c)
    /\ queue' = Append(Tail(queue), Head(queue))
    /\ UNCHANGED <<owner, path, pc, call, step, tx, on>>

\* The first in line has waited for 30 s: ConnectionAcquireTimeoutError, which
\* the code that asked takes for any other error of its statement.
AcquireTimeout ==
    /\ queue # <<>>
    /\ \A c \in Conns : ~Free(c)
    /\ UNCHANGED <<owner, path, call, tx>>
    /\ LET r == Head(queue)
       IN  IF Current(r).kind = "lenient" THEN GoOn(r, Tail(queue))
           ELSE Stop(r, Tail(queue))

\* ROLLBACK, whether it succeeds or not, ends the transaction.
Rollback(r) ==
    /\ pc[r] = "rollback"
    /\ owner' = [owner EXCEPT ![tx[r]] = None]
    /\ tx' = [tx EXCEPT ![r] = None]
    /\ pc' = [pc EXCEPT ![r] = "done"]
    /\ UNCHANGED <<queue, path, call, step, on>>

\* Variant: a new connection has no schema to start in.
ReopenNowhere(c) ==
    /\ Free(c)
    /\ path[c] # Public
    /\ path' = [path EXCEPT ![c] = None]
    /\ UNCHANGED <<owner, queue, pc, call, step, tx, on>>

\* A connection that was idle for 10 s is closed; a new one starts in public.
CloseIdle(c) ==
    /\ Free(c)
    /\ path[c] # Public
    /\ path' = [path EXCEPT ![c] = Public]
    /\ UNCHANGED <<owner, queue, pc, call, step, tx, on>>

Quiet ==
    /\ \A r \in Requests : pc[r] = "done"
    /\ UNCHANGED vars

Handle(r) == Complete(r) \/ StatementFails(r) \/ Rollback(r)

Serve == AcquireTimeout \/ \E c \in Conns : Grant(c)

Next ==
    \/ \E r \in Requests : Receive(r) \/ Handle(r)
    \/ Serve
    \/ \E c \in Conns : CloseIdle(c)
    \/ Quiet

Spec == Init /\ [][Next]_vars

\* Statements end, the event loop runs handlers, the pool dispenses what is free,
\* and the timer of an acquire fires.
FairSpec == Spec /\ WF_vars(Serve) /\ \A r \in Requests : WF_vars(Handle(r))
--------------------------------------------------------------------------------
\* Properties.

\* Every variable keeps its type.
TypeOK ==
    /\ owner \in [Conns -> Requests \cup {None}]
    /\ queue \in Seq(Requests)
    /\ path \in [Conns -> Schemas]
    /\ pc \in [Requests -> {"idle", "waiting", "running", "rollback", "done"}]
    /\ call \in [Requests -> Calls \cup {NoCall}]
    /\ step \in [Requests -> Nat \ {0}]
    /\ tx \in [Requests -> Conns \cup {None}]
    /\ on \in [Requests -> Conns \cup {None}]

\* The pool and the handlers agree on who has what: a connection is out exactly
\* while a transaction or a running statement of its owner uses it, and a request
\* that has ended has none.  Whatever fails, and whether it fails for want of a
\* connection (db.js:16), createTenant's transaction gives its own back.
Accounted ==
    /\ \A c \in Conns, r \in Requests : owner[c] = r <=> tx[r] = c \/ on[r] = c
    /\ \A r \in Requests : pc[r] \in {"idle", "done"} => tx[r] = None /\ on[r] = None

\* Nobody who has a connection can go on before somebody gives one back.
Stuck == \A c \in Conns : ~Free(c) /\ pc[owner[c]] = "waiting"

\* Only tenant creations can block the pool, and only as many of them at once as
\* there are connections: up to four at a time (tenant.service.js:25), and any
\* number of other requests, never wait for one another.
CreationsBlock ==
    Stuck => Cardinality({r \in Requests : tx[r] # None}) >= Cardinality(Conns)

\* Once tenantResolver has run, the statements of the request are executed with
\* the search path of its tenant: "Sets the PostgreSQL search_path to isolate
\* tenant data" (tenantResolver.js:4).
PathIsolates ==
    \A r \in Requests :
        /\ pc[r] = "running"
        /\ call[r].op \in {"write", "list"} /\ step[r] > 2
        /\ Current(r).kind # "path"
        => path[on[r]] = call[r].tenant

\* Every request ends, even when creations hold all connections and wait for
\* more: the acquire timeout lets the first in line go.
PoolEnds == \A r \in Requests : pc[r] # "idle" ~> pc[r] = "done"
================================================================================
