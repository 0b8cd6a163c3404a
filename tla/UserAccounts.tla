------------------------------ MODULE UserAccounts ------------------------------
(***************************************************************************)
(* Users: the two logins, the refresh of a token, and the management of a  *)
(* tenant's users (create, PATCH, delete) behind tenantResolver,           *)
(* requireAdmin and checkPermission.                                       *)
(*                                                                         *)
(* Each action is one database statement, or one bcrypt call that matters, *)
(* with the code that runs up to the next await.  SET search_path and      *)
(* bcrypt.hash are awaits that read nothing shared: they are part of the   *)
(* step before them.  A token is a copy of what was true when it was       *)
(* signed; nothing on the server remembers it.  What auditLog does with a  *)
(* finished request is UnitBooking's Audit; here it only has to arrive.    *)
(*                                                                         *)
(* The switching of a tenant is one step, which is what TenantDirectory    *)
(* promises.  A definition commented as a "Variant" is not the code: it is *)
(* a plausible mistake that the properties are tried against.              *)
(***************************************************************************)
EXTENDS Naturals

CONSTANTS
    Requests,   \* requests the server receives, each once
    Tenants,    \* the tenants, each with the schema of its name
    Public,     \* the schema of the super admins
    Emails,
    Passwords,
    MaxUid,     \* bound: users of one schema
    Founders,   \* emails and passwords the first users of the schemas may have
    NewUsers,   \* what POST bodies say, a subset of NewUser
    Patches,    \* what PATCH bodies set, a subset of Patch
    Ops,        \* operations that are called, and "switch" and "expire"
    Faults,     \* what may go wrong: "sql", "ack", "crash"
    None

SuperAdmin == "Super Admin"
TenantRoles == {"Admin", "Sales", "Viewer"}
Roles == TenantRoles \cup {SuperAdmin}
Schemas == Tenants \cup {Public}
Uids == 1..MaxUid

\* A row of <schema>.users; None where there is none.
User == [email : Emails, password : Passwords, role : Roles, is_active : BOOLEAN]
NewUser == {u \in User : u.is_active /\ u.role \in TenantRoles}

\* A PATCH body: None in the columns it does not set.  The columns the model
\* leaves out (name) may be set alone.
Patch == [email : Emails \cup {None}, password : Passwords \cup {None},
          role : TenantRoles \cup {None}, is_active : BOOLEAN \cup {None}]

\* What a token says.  schema stands for tenant_id and tenant_schema.
Token == [schema : Schemas, uid : Uids, role : Roles]

ASSUME UserAccountsAssumption ==
    /\ MaxUid \in Nat \ {0}
    /\ Public \notin Tenants
    /\ Founders \subseteq [Schemas -> [email : Emails, password : Passwords]]
    /\ NewUsers \subseteq NewUser
    /\ Patches \subseteq Patch
    /\ Faults \subseteq {"sql", "ack", "crash"}
    /\ None \notin Emails \cup Passwords \cup Roles
    /\ None \notin BOOLEAN
    /\ None \notin User \cup Token

VARIABLES
    active,     \* public.tenants.is_active
    users,      \* the users tables
    tokens,     \* the tokens that are signed and not expired
    pc,         \* where each request's handler is suspended
    call,       \* what each request asks
    todo,       \* the schemas a login has still to search
    found,      \* the user a login has read
    result,     \* the answer, "none" before it
    trail,      \* the audit entry: "none", "scheduled", "written"
    issued,     \* the token a request was answered with
    deserved,   \* history: the tokens that were right at a moment of the request
    opened      \* history: the tenants that were active at a moment of it

locals == <<call, todo, found, trail, issued>>
vars == <<active, users, tokens, pc, call, todo, found, result, trail, issued,
          deserved, opened>>

Logins == {"login", "superLogin"}
Managing == {"create", "update", "delete"}
InFlight == {"list", "search", "verify", "current", "resolve", "check", "insert",
             "old", "find", "write"}

Op(r) == call[r].op
Stored(s, u) == users[s][u] # None

\* Has another user of the schema this email?
Taken(s, e, but) == \E u \in Uids \ but : Stored(s, u) /\ users[s][u].email = e

NoCall == [op |-> "none"]

Calls ==
    [op : Logins, email : Emails, password : Passwords]
    \cup [op : {"refresh"}, token : tokens]
    \cup [op : {"create"}, token : tokens, row : NewUsers]
    \cup [op : {"update"}, token : tokens, uid : Uids, patch : Patches]
    \cup [op : {"delete"}, token : tokens, uid : Uids]

\* Each schema has the user it was made with: a tenant its admin, public the
\* super admin.  Each has a token from before.
Init ==
    /\ active = [t \in Tenants |-> TRUE]
    /\ \E f \in Founders :
          users = [s \in Schemas |-> [u \in Uids |->
                     IF u # 1 THEN None
                     ELSE [email |-> f[s].email, password |-> f[s].password,
                           role |-> IF s = Public THEN SuperAdmin ELSE "Admin",
                           is_active |-> TRUE]]]
    /\ tokens = {[schema |-> s, uid |-> 1,
                  role |-> IF s = Public THEN SuperAdmin ELSE "Admin"] : s \in Schemas}
    /\ pc = [r \in Requests |-> "idle"]
    /\ call = [r \in Requests |-> NoCall]
    /\ todo = [r \in Requests |-> {}]
    /\ found = [r \in Requests |-> None]
    /\ result = [r \in Requests |-> "none"]
    /\ trail = [r \in Requests |-> "none"]
    /\ issued = [r \in Requests |-> None]
    /\ deserved = [r \in Requests |-> {}]
    /\ opened = [r \in Requests |-> {}]

FirstStep(op) ==
    CASE op = "login"      -> "list"
      [] op = "superLogin" -> "search"
      [] op = "refresh"    -> "current"
      [] OTHER             -> "resolve"

\* authenticateToken lets through what is signed and not expired.
Receive(r) ==
    /\ pc[r] = "idle"
    /\ \E c \in Calls :
          /\ c.op \in Ops
          /\ call' = [call EXCEPT ![r] = c]
          /\ pc' = [pc EXCEPT ![r] = FirstStep(c.op)]
          /\ todo' = [todo EXCEPT ![r] = IF c.op = "superLogin" THEN {Public} ELSE {}]
    /\ UNCHANGED <<active, users, tokens, found, result, trail, issued>>

Goto(r, from, to) ==
    /\ pc[r] = from
    /\ pc' = [pc EXCEPT ![r] = to]
    /\ UNCHANGED result

Answer(r, res) ==
    /\ pc' = [pc EXCEPT ![r] = "done"]
    /\ result' = [result EXCEPT ![r] = res]

\* jwt.sign, and the answer with the token.
Sign(r, token) ==
    /\ tokens' = tokens \cup {token}
    /\ issued' = [issued EXCEPT ![r] = token]
    /\ Answer(r, "ok")

--------------------------------------------------------------------------------
\* tenantUserLogin and superAdminLogin.  The look-ups swallow their errors.

\* The tenants to search.  The query has no ORDER BY: any order may come.
ListTenants(r) ==
    /\ pc[r] = "list"
    /\ \E ts \in {{t \in Tenants : active[t]}} \cup (IF "sql" \in Faults THEN {{}} ELSE {}) :
          /\ todo' = [todo EXCEPT ![r] = ts]
          /\ IF ts = {} THEN Answer(r, "unauthorized") ELSE Goto(r, "list", "search")
    /\ UNCHANGED <<active, users, tokens, call, found, trail, issued>>

\* findByEmail in the next schema.
Matches(r, s, u) ==
    /\ Stored(s, u)
    /\ users[s][u].email = call[r].email
    /\ Op(r) = "superLogin" => users[s][u].role = SuperAdmin

FindUser(r) ==
    /\ Goto(r, "search", "verify")
    /\ \E s \in todo[r], u \in Uids :
          /\ Matches(r, s, u)
          /\ found' = [found EXCEPT ![r] = [schema |-> s, uid |-> u, row |-> users[s][u]]]
    /\ todo' = [todo EXCEPT ![r] = {}]
    /\ UNCHANGED <<active, users, tokens, call, trail, issued>>

\* Variant: the loop does not go on to the next schema.
MissUserAgain(r) ==
    /\ Goto(r, "search", "search")
    /\ \E s \in todo[r] : \A u \in Uids : ~Matches(r, s, u)
    /\ UNCHANGED <<active, users, tokens, locals>>

MissUser(r) ==
    /\ pc[r] = "search"
    /\ \E s \in todo[r] :
          /\ "sql" \in Faults \/ \A u \in Uids : ~Matches(r, s, u)
          /\ todo' = [todo EXCEPT ![r] = @ \ {s}]
          /\ IF todo[r] = {s} THEN Answer(r, "unauthorized") ELSE Goto(r, "search", "search")
    /\ UNCHANGED <<active, users, tokens, call, found, trail, issued>>

\* bcrypt.compare took a while: the row it is about may have changed.
Accepts(r) == found[r].row.password = call[r].password /\ found[r].row.is_active

\* Variant: the row is read again for the token, but not checked again.
SignCurrentRow(r) ==
    /\ pc[r] = "verify"
    /\ Accepts(r)
    /\ Sign(r, [schema |-> found[r].schema, uid |-> found[r].uid,
                role |-> users[found[r].schema][found[r].uid].role])
    /\ UNCHANGED <<active, users, call, todo, found, trail>>

SignIn(r) ==
    /\ pc[r] = "verify"
    /\ Accepts(r)
    /\ Sign(r, [schema |-> found[r].schema, uid |-> found[r].uid,
                role |-> found[r].row.role])
    /\ UNCHANGED <<active, users, call, todo, found, trail>>

RejectLogin(r) ==
    /\ pc[r] = "verify"
    /\ ~Accepts(r)
    /\ Answer(r, "unauthorized")
    /\ UNCHANGED <<active, users, tokens, locals>>

--------------------------------------------------------------------------------
\* refreshToken: findById, then the new token in the same step.

Current(r) == users[call[r].token.schema][call[r].token.uid]
Usable(row) == row # None /\ row.is_active

Refresh(r) ==
    /\ pc[r] = "current"
    /\ Usable(Current(r))
    /\ Sign(r, [call[r].token EXCEPT !.role = Current(r).role])
    /\ UNCHANGED <<active, users, call, todo, found, trail>>

RefuseRefresh(r) ==
    /\ pc[r] = "current"
    /\ ~Usable(Current(r)) \/ "sql" \in Faults
    /\ Answer(r, "unauthorized")
    /\ UNCHANGED <<active, users, tokens, locals>>

--------------------------------------------------------------------------------
\* The management of users.  All of it reads the token, none of it the user who
\* asks.

Schema(r) == call[r].token.schema
Role(r) == call[r].token.role

RequireAdmin(role) == role \in {SuperAdmin, "Admin"}

\* Variant: the matrix gives the super admin what an admin has.
PermissionsOfAll(role) ==
    IF role \in {"Admin", SuperAdmin} THEN {"create", "read", "update", "delete"} ELSE {}

\* The row of the matrix for the resource users.
Permissions(role) ==
    IF role = "Admin" THEN {"create", "read", "update", "delete"} ELSE {}

\* tenantResolver sends super admins to public, and others to an active tenant.
OpenSchemas == {Public} \cup {t \in Tenants : active[t]}

\* tenantResolver, requireAdmin and checkPermission.
Resolve(r) ==
    /\ Goto(r, "resolve", IF Op(r) = "create" THEN "check" ELSE "old")
    /\ Schema(r) \in OpenSchemas
    /\ RequireAdmin(Role(r))
    /\ Op(r) \in Permissions(Role(r))
    /\ UNCHANGED <<active, users, tokens, locals>>

Forbid(r) ==
    /\ pc[r] = "resolve"
    /\ \/ Schema(r) \notin OpenSchemas
       \/ ~RequireAdmin(Role(r))
       \/ Op(r) \notin Permissions(Role(r))
    /\ Answer(r, "forbidden")
    /\ UNCHANGED <<active, users, tokens, locals>>

ResolveFails(r) ==
    /\ "sql" \in Faults
    /\ pc[r] = "resolve"
    /\ Answer(r, "serverError")
    /\ UNCHANGED <<active, users, tokens, locals>>

\* getUserById of the controller, then findById of the service.
TheRow(r) == users[Schema(r)][call[r].uid]

ReadOld(r) ==
    /\ Goto(r, "old", "find")
    /\ TheRow(r) # None
    /\ UNCHANGED <<active, users, tokens, locals>>

\* A new email that differs from the row's is looked up before the UPDATE.
FindExisting(r) ==
    /\ Goto(r, "find", IF /\ Op(r) = "update"
                          /\ call[r].patch.email \notin {None, TheRow(r).email}
                       THEN "check" ELSE "write")
    /\ TheRow(r) # None
    /\ UNCHANGED <<active, users, tokens, locals>>

NotFound(r) ==
    /\ pc[r] \in {"old", "find"}
    /\ TheRow(r) = None \/ "sql" \in Faults
    /\ Answer(r, "notFound")
    /\ UNCHANGED <<active, users, tokens, locals>>

\* The email that r wants, and whose it may be already.
Wanted(r) == IF Op(r) = "create" THEN call[r].row.email ELSE call[r].patch.email
Own(r) == IF Op(r) = "create" THEN {} ELSE {call[r].uid}

\* emailExists answers false on an error.
EmailFree(r) ==
    /\ Goto(r, "check", IF Op(r) = "create" THEN "insert" ELSE "write")
    /\ ~Taken(Schema(r), Wanted(r), Own(r)) \/ "sql" \in Faults
    /\ UNCHANGED <<active, users, tokens, locals>>

EmailExists(r) ==
    /\ pc[r] = "check"
    /\ Taken(Schema(r), Wanted(r), Own(r))
    /\ Answer(r, "conflict")
    /\ UNCHANGED <<active, users, tokens, locals>>

\* A statement has committed: the answer, and next() to auditLog.  Or its
\* acknowledgement is lost.
Committed(r) ==
    \/ Answer(r, "ok") /\ trail' = [trail EXCEPT ![r] = "scheduled"]
    \/ "ack" \in Faults /\ Answer(r, "serverError") /\ UNCHANGED trail

\* Variant: only emailExists stands between two equal emails.
InsertUnindexed(r) ==
    /\ pc[r] = "insert"
    /\ \E u \in Uids :
          /\ ~Stored(Schema(r), u) /\ \A v \in 1..(u - 1) : Stored(Schema(r), v)
          /\ users' = [users EXCEPT ![Schema(r)][u] = call[r].row]
    /\ Committed(r)
    /\ UNCHANGED <<active, tokens, call, todo, found, issued>>

InsertUser(r) ==
    /\ pc[r] = "insert"
    /\ ~Taken(Schema(r), Wanted(r), {})
    /\ \E u \in Uids :
          /\ ~Stored(Schema(r), u) /\ \A v \in 1..(u - 1) : Stored(Schema(r), v)
          /\ users' = [users EXCEPT ![Schema(r)][u] = call[r].row]
    /\ Committed(r)
    /\ UNCHANGED <<active, tokens, call, todo, found, issued>>

\* Variant: a body that does not set is_active clears it.
PatchedAll(row, p) ==
    [email     |-> IF p.email = None THEN row.email ELSE p.email,
     password  |-> IF p.password = None THEN row.password ELSE p.password,
     role      |-> IF p.role = None THEN row.role ELSE p.role,
     is_active |-> p.is_active]

\* The columns the body sets; the others keep what they have by then.
Patched(row, p) ==
    [email     |-> IF p.email = None THEN row.email ELSE p.email,
     password  |-> IF p.password = None THEN row.password ELSE p.password,
     role      |-> IF p.role = None THEN row.role ELSE p.role,
     is_active |-> IF p.is_active = None THEN row.is_active ELSE p.is_active]

UpdateUser(r) ==
    /\ pc[r] = "write" /\ Op(r) = "update"
    /\ ~Taken(Schema(r), Patched(TheRow(r), call[r].patch).email, Own(r))
    /\ users' = [users EXCEPT ![Schema(r)][call[r].uid] = Patched(@, call[r].patch)]
    /\ Committed(r)
    /\ UNCHANGED <<active, tokens, call, todo, found, issued>>

SoftDelete(r) ==
    /\ pc[r] = "write" /\ Op(r) = "delete"
    /\ users' = [users EXCEPT ![Schema(r)][call[r].uid].is_active = FALSE]
    /\ Committed(r)
    /\ UNCHANGED <<active, tokens, call, todo, found, issued>>

\* The unique index refuses the row, which no branch of the controller expects.
IndexRefuses(r) ==
    /\ \/ pc[r] = "insert" /\ Taken(Schema(r), Wanted(r), {})
       \/ /\ pc[r] = "write" /\ Op(r) = "update"
          /\ Taken(Schema(r), Patched(TheRow(r), call[r].patch).email, Own(r))
    /\ Answer(r, "serverError")
    /\ UNCHANGED <<active, users, tokens, locals>>

\* softDelete turns its error into false, which nobody reads: a success.
WriteFails(r) ==
    /\ "sql" \in Faults
    /\ pc[r] \in {"insert", "write"}
    /\ IF Op(r) = "delete"
       THEN Answer(r, "ok") /\ trail' = [trail EXCEPT ![r] = "scheduled"]
       ELSE Answer(r, "serverError") /\ UNCHANGED trail
    /\ UNCHANGED <<active, users, tokens, call, todo, found, issued>>

\* createAuditLog, which swallows its errors.
Audit(r) ==
    /\ trail[r] = "scheduled"
    /\ \E w \in {"written"} \cup (IF "sql" \in Faults THEN {"none"} ELSE {}) :
          trail' = [trail EXCEPT ![r] = w]
    /\ UNCHANGED <<active, users, tokens, pc, call, todo, found, result, issued>>

--------------------------------------------------------------------------------
\* A super admin activates or deactivates a tenant.
SwitchTenant ==
    /\ "switch" \in Ops
    /\ \E t \in Tenants : active' = [active EXCEPT ![t] = ~@]
    /\ UNCHANGED <<users, tokens, pc, result, locals>>

\* Some token is 24 hours old.
Expire ==
    /\ "expire" \in Ops
    /\ \E token \in tokens : tokens' = tokens \ {token}
    /\ UNCHANGED <<active, users, pc, result, locals>>

\* The process dies.  Tokens stay good: only the secret is needed to check them.
Crash ==
    /\ "crash" \in Faults
    /\ \E r \in Requests : pc[r] \in InFlight \/ trail[r] = "scheduled"
    /\ pc' = [r \in Requests |-> IF pc[r] \in InFlight THEN "lost" ELSE pc[r]]
    /\ trail' = [r \in Requests |-> IF trail[r] = "scheduled" THEN "none" ELSE trail[r]]
    /\ UNCHANGED <<active, users, tokens, call, todo, found, result, issued>>

LoginStep(r) ==
    \/ ListTenants(r) \/ FindUser(r) \/ MissUser(r)
    \/ SignIn(r) \/ RejectLogin(r)

ManageStep(r) ==
    \/ Resolve(r) \/ Forbid(r) \/ ResolveFails(r)
    \/ ReadOld(r) \/ FindExisting(r) \/ NotFound(r)
    \/ EmailFree(r) \/ EmailExists(r)
    \/ InsertUser(r) \/ UpdateUser(r) \/ SoftDelete(r) \/ IndexRefuses(r) \/ WriteFails(r)

Handle(r) == LoginStep(r) \/ Refresh(r) \/ RefuseRefresh(r) \/ ManageStep(r) \/ Audit(r)

Quiet ==
    /\ \A r \in Requests : pc[r] \in {"done", "lost"} /\ trail[r] # "scheduled"
    /\ UNCHANGED <<active, users, tokens, pc, result, locals>>

\* The tokens that the call c ought to get from these tables: for a login those of
\* the active users with its email and password, for a refresh that of its user.
Deserved(c, tables) ==
    {token \in Token :
        /\ Usable(tables[token.schema][token.uid])
        /\ tables[token.schema][token.uid].role = token.role
        /\ \/ /\ c.op = IF token.schema = Public THEN "superLogin" ELSE "login"
              /\ tables[token.schema][token.uid].email = c.email
              /\ tables[token.schema][token.uid].password = c.password
           \/ /\ c.op = "refresh"
              /\ token.schema = c.token.schema /\ token.uid = c.token.uid}

\* The history variables watch every step from a request's arrival to its answer.
Watch ==
    /\ deserved' = [r \in Requests |-> deserved[r] \cup
                       IF pc'[r] \in InFlight THEN Deserved(call'[r], users') ELSE {}]
    /\ opened' = [r \in Requests |-> opened[r] \cup
                     IF pc'[r] \in InFlight THEN {t \in Tenants : active'[t]} ELSE {}]

Step(r) == Handle(r) /\ Watch

Next ==
    \/ \E r \in Requests : (Receive(r) /\ Watch) \/ Step(r)
    \/ (SwitchTenant \/ Expire \/ Crash \/ Quiet) /\ Watch

Spec == Init /\ [][Next]_vars

\* Every statement completes or fails, and the event loop then runs the handler.
FairSpec == Spec /\ \A r \in Requests : WF_vars(Step(r))
--------------------------------------------------------------------------------
\* Properties.

\* Every variable keeps its type.
TypeOK ==
    /\ active \in [Tenants -> BOOLEAN]
    /\ users \in [Schemas -> [Uids -> User \cup {None}]]
    /\ tokens \subseteq Token
    /\ pc \in [Requests -> {"idle", "done", "lost"} \cup InFlight]
    /\ todo \in [Requests -> SUBSET Schemas]
    /\ found \in [Requests -> [schema : Schemas, uid : Uids, row : User] \cup {None}]
    /\ result \in [Requests -> {"none", "ok", "unauthorized", "forbidden", "notFound",
                                "conflict", "serverError"}]
    /\ trail \in [Requests -> {"none", "scheduled", "written"}]
    /\ issued \in [Requests -> Token \cup {None}]
    /\ deserved \in [Requests -> SUBSET Token]
    /\ opened \in [Requests -> SUBSET Tenants]

\* No two users of a schema have one email, whatever the creations and PATCHes that
\* all found it free (user.service.js:142, 214), and although emailExists answers
\* false when it fails.
EmailsUnique ==
    \A s \in Schemas : \A u \in Uids : Stored(s, u) => ~Taken(s, users[s][u].email, {u})

\* A login or a refresh that succeeds gives a token that was right at one moment
\* between request and answer: that user was active, had the role, and for a login
\* the email and the password, all at once.  It is not put together from two
\* states of the row, although users change between the read, the comparison of the
\* passwords and the signature (user.service.js:86-118, 250-274).  A tenant login
\* also met its tenant active, though perhaps at another moment.
TokensJustified ==
    \A r \in Requests : issued[r] # None =>
        /\ issued[r] \in deserved[r]
        /\ Op(r) = "login" => issued[r].schema \in opened[r]

\* The users of a tenant change only for a request that has a token of that tenant
\* as an Admin and met the tenant active; those of public never do, although
\* requireAdmin lets super admins pass and tenantResolver sends them to public.
\* The write is up to five awaits after these checks.
WritesAuthorised ==
    [][\A s \in Schemas : users'[s] # users[s] =>
          \E r \in Requests :
              /\ pc[r] # pc'[r]
              /\ Op(r) \in Managing
              /\ Schema(r) = s /\ Role(r) = "Admin" /\ s \in opened[r]]_vars

\* Every request is answered, unless the process died: neither the search through
\* the schemas (user.repository.js:108) nor a failure keeps one open.
AccountCallsEnd ==
    \A r \in Requests : pc[r] \in InFlight ~> pc[r] \in {"done", "lost"}

\* "Admin can now login with provided credentials" (API_DOCUMENTATION.html:705):
\* nobody with the email and password of an active user of an active tenant is
\* refused.  To be checked where nothing but logins happens.
CredentialsWork ==
    \A r \in Requests : Op(r) = "login" /\ result[r] = "unauthorized" =>
        \A t \in Tenants, u \in Uids :
            active[t] /\ Stored(t, u) =>
                \/ users[t][u].email # call[r].email
                \/ users[t][u].password # call[r].password
                \/ ~users[t][u].is_active
================================================================================
