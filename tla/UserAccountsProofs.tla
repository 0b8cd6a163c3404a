--------------------------- MODULE UserAccountsProofs ---------------------------
(***************************************************************************)
(* Theorems about UserAccounts, for any requests, tenants, users and       *)
(* faults.  Two things carry the argument: a request that has passed the   *)
(* middleware keeps what it was checked for, because nobody else touches   *)
(* its token and history only grows (Passed); and what a login has read    *)
(* was in the tables while it was open (Watched, SearchOK).                *)
(***************************************************************************)
EXTENDS UserAccounts, TLAPS

\* Super admins are the users of public, and nobody else.
Honest(s, role) == role = SuperAdmin <=> s = Public

UsersHonest ==
    \A s \in Schemas, u \in Uids : Stored(s, u) => Honest(s, users[s][u].role)

TokensHonest == \A token \in tokens : Honest(token.schema, token.role)

\* The steps behind the middleware.
Behind == {"check", "insert", "old", "find", "write"}

\* What an open request asks for.
CallOK(r) ==
    /\ pc[r] = "list" => Op(r) = "login"
    /\ pc[r] \in {"search", "verify"} => Op(r) \in Logins
    /\ pc[r] = "current" => Op(r) = "refresh"
    /\ pc[r] \in {"resolve"} \cup Behind => Op(r) \in Managing
    /\ pc[r] = "check" => Op(r) # "delete"
    /\ pc[r] = "insert" => Op(r) = "create"
    /\ pc[r] \in {"old", "find", "write"} => Op(r) # "create"
    /\ pc[r] \in {"current", "resolve"} \cup Behind =>
          call[r].token \in Token /\ Honest(call[r].token.schema, call[r].token.role)
    /\ pc[r] \in {"resolve"} \cup Behind =>
          /\ Op(r) = "create" => call[r].row \in NewUser
          /\ Op(r) # "create" => call[r].uid \in Uids
          /\ Op(r) = "update" => call[r].patch \in Patch

\* Behind the middleware a request is an admin's whose tenant was active; and
\* where it is about to write a row, the row is there.
Passed(r) ==
    /\ pc[r] \in Behind => Role(r) = "Admin" /\ Schema(r) \in opened[r]
    /\ pc[r] = "write" \/ (pc[r] = "check" /\ Op(r) = "update") => TheRow(r) # None

\* What a login has found was right at a moment.
SearchOK(r) ==
    /\ pc[r] = "search" =>
          todo[r] \subseteq IF Op(r) = "login" THEN opened[r] ELSE {Public}
    /\ pc[r] = "verify" =>
          /\ found[r] \in [schema : Schemas, uid : Uids, row : User]
          /\ Honest(found[r].schema, found[r].row.role)
          /\ Op(r) = "login" => found[r].schema \in opened[r]
          /\ Accepts(r) => [schema |-> found[r].schema, uid |-> found[r].uid,
                            role |-> found[r].row.role] \in deserved[r]

\* History has seen the present.
Watched(r) ==
    pc[r] \in InFlight =>
        /\ Deserved(call[r], users) \subseteq deserved[r]
        /\ \A t \in Tenants : active[t] => t \in opened[r]

\* What was issued was deserved.
IssuedOK(r) ==
    issued[r] # None =>
        /\ pc[r] = "done"
        /\ issued[r] \in deserved[r]
        /\ Op(r) = "login" => issued[r].schema \in opened[r]

Requested(r) == CallOK(r) /\ Passed(r) /\ SearchOK(r) /\ Watched(r) /\ IssuedOK(r)

IInv ==
    /\ TypeOK
    /\ UsersHonest
    /\ TokensHonest
    /\ EmailsUnique
    /\ DOMAIN call = Requests /\ call = [r \in DOMAIN call |-> call[r]]
    /\ \A r \in Requests : Requested(r)

--------------------------------------------------------------------------------
LEMMA Names ==
    /\ SuperAdmin \notin TenantRoles /\ SuperAdmin # "Admin" /\ SuperAdmin # None
    /\ None \notin TenantRoles /\ Public \in Schemas /\ Public \notin Tenants
    /\ Tenants \subseteq Schemas /\ 1 \in Uids
  <1>1. SuperAdmin \notin TenantRoles /\ SuperAdmin # "Admin"
    BY DEF SuperAdmin, TenantRoles
  <1>2. None \notin TenantRoles /\ SuperAdmin # None
    BY UserAccountsAssumption DEF Roles
  <1>3. 1 \in Uids
    BY UserAccountsAssumption DEF Uids
  <1> QED
    BY <1>1, <1>2, <1>3, UserAccountsAssumption DEF Schemas

LEMMA InitIInv == Init => IInv
  <1> SUFFICES ASSUME Init PROVE IInv
    OBVIOUS
  <1>1. PICK f \in Founders :
          users = [s \in Schemas |-> [u \in Uids |->
                     IF u # 1 THEN None
                     ELSE [email |-> f[s].email, password |-> f[s].password,
                           role |-> IF s = Public THEN SuperAdmin ELSE "Admin",
                           is_active |-> TRUE]]]
    BY DEF Init
  <1>2. \A s \in Schemas : f[s].email \in Emails /\ f[s].password \in Passwords
    BY UserAccountsAssumption
  <1>3. \A s \in Schemas, u \in Uids \ {1} : users[s][u] = None
    BY <1>1
  <1>4. \A s \in Schemas :
           /\ users[s][1] \in User
           /\ Honest(s, users[s][1].role)
    BY <1>1, <1>2, Names DEF User, Roles, TenantRoles, Honest
  <1>5. users \in [Schemas -> [Uids -> User \cup {None}]]
    <2>1. \A s \in Schemas : users[s] \in [Uids -> User \cup {None}]
      BY <1>1, <1>3, <1>4
    <2> QED
      BY <1>1, <2>1
  <1>6. tokens \subseteq Token /\ TokensHonest
    BY Names DEF Init, Token, Roles, TenantRoles, TokensHonest, Honest
  <1>7. TypeOK
    BY <1>5, <1>6 DEF Init, TypeOK
  <1>8. UsersHonest
    BY <1>3, <1>4 DEF UsersHonest, Stored
  <1>9. EmailsUnique
    BY <1>3 DEF EmailsUnique, Taken, Stored
  <1>10. \A r \in Requests : Requested(r)
    BY DEF Init, Requested, CallOK, Passed, SearchOK, Watched, IssuedOK, Behind, InFlight
  <1>11. DOMAIN call = Requests /\ call = [r \in DOMAIN call |-> call[r]]
    BY DEF Init
  <1> QED
    BY <1>6, <1>7, <1>8, <1>9, <1>10, <1>11 DEF IInv
--------------------------------------------------------------------------------
\* The writes.  All three put one row into the tenant of the token.

\* r puts row at u, and may.
Puts(r, u, row) ==
    /\ users' = [users EXCEPT ![Schema(r)][u] = row]
    /\ ~Taken(Schema(r), row.email, {u})
    /\ row.role \in TenantRoles

Writer(r) ==
    /\ pc[r] \in Behind /\ pc'[r] = "done"
    /\ Op(r) \in Managing
    /\ Role(r) = "Admin" /\ Schema(r) \in opened[r] /\ Schema(r) \in Tenants

LEMMA MayWrite ==
    ASSUME IInv, NEW r \in Requests, InsertUser(r) \/ UpdateUser(r) \/ SoftDelete(r)
    PROVE  Writer(r)
  <1>1. pc[r] \in Behind /\ pc'[r] = "done"
    BY DEF InsertUser, UpdateUser, SoftDelete, Committed, Answer, Behind, IInv, TypeOK
  <1>2. opened[r] \subseteq Tenants
    BY DEF IInv, TypeOK
  <1> QED
    BY <1>1, <1>2 DEF IInv, Requested, CallOK, Passed, Writer

\* The row that r is about to change.
LEMMA RowToChange ==
    ASSUME IInv, NEW r \in Requests, pc[r] = "write"
    PROVE  /\ call[r].uid \in Uids /\ Schema(r) \in Tenants
           /\ TheRow(r) \in User /\ TheRow(r).role \in TenantRoles
           /\ ~Taken(Schema(r), TheRow(r).email, {call[r].uid})
  <1>1. call[r].uid \in Uids /\ TheRow(r) # None
    BY DEF IInv, Requested, CallOK, Passed, Behind
  <1>2. Schema(r) \in Tenants
    BY DEF IInv, Requested, Passed, Behind, TypeOK
  <1>3. Stored(Schema(r), call[r].uid) /\ TheRow(r) \in User
    BY <1>1, <1>2, Names DEF IInv, TypeOK, Stored, TheRow
  <1>4. TheRow(r).role \in TenantRoles
    BY <1>1, <1>2, <1>3, Names DEF IInv, UsersHonest, Honest, TheRow, User, Roles
  <1>5. ~Taken(Schema(r), TheRow(r).email, {call[r].uid})
    BY <1>1, <1>2, <1>3, Names DEF IInv, EmailsUnique, TheRow
  <1> QED
    BY <1>1, <1>2, <1>3, <1>4, <1>5

LEMMA PatchedRow ==
    ASSUME NEW row \in User, NEW p \in Patch, row.role \in TenantRoles
    PROVE  Patched(row, p) \in User /\ Patched(row, p).role \in TenantRoles
  BY DEF Patched, User, Patch, Roles

LEMMA OneRowWritten ==
    ASSUME IInv, NEW r \in Requests, InsertUser(r) \/ UpdateUser(r) \/ SoftDelete(r)
    PROVE  \E u \in Uids, row \in User : Puts(r, u, row)
  <1>1. CASE InsertUser(r)
    <2>1. /\ pc[r] = "insert" /\ ~Taken(Schema(r), Wanted(r), {})
          /\ call[r].row \in NewUser /\ Wanted(r) = call[r].row.email
      BY <1>1 DEF InsertUser, IInv, Requested, CallOK, Behind, Wanted
    <2>2. PICK u \in Uids : users' = [users EXCEPT ![Schema(r)][u] = call[r].row]
      BY <1>1 DEF InsertUser
    <2>3. ~Taken(Schema(r), call[r].row.email, {u})
      BY <2>1 DEF Taken
    <2> QED
      BY <2>1, <2>2, <2>3 DEF Puts, NewUser
  <1>2. CASE UpdateUser(r)
    <2>1. /\ pc[r] = "write" /\ Op(r) = "update" /\ call[r].patch \in Patch
          /\ Own(r) = {call[r].uid}
          /\ ~Taken(Schema(r), Patched(TheRow(r), call[r].patch).email, Own(r))
          /\ users' = [users EXCEPT ![Schema(r)][call[r].uid] =
                         Patched(TheRow(r), call[r].patch)]
      BY <1>2 DEF UpdateUser, IInv, Requested, CallOK, Behind, Own, TheRow
    <2>2. /\ Patched(TheRow(r), call[r].patch) \in User
          /\ Patched(TheRow(r), call[r].patch).role \in TenantRoles
      BY <2>1, RowToChange, PatchedRow
    <2> QED
      BY <2>1, <2>2, RowToChange DEF Puts
  <1>3. CASE SoftDelete(r)
    <2>1. /\ pc[r] = "write"
          /\ users' = [users EXCEPT ![Schema(r)][call[r].uid].is_active = FALSE]
      BY <1>3 DEF SoftDelete
    <2> DEFINE row == [TheRow(r) EXCEPT !.is_active = FALSE]
    <2>2. /\ row \in User /\ row.role = TheRow(r).role /\ row.email = TheRow(r).email
      BY <2>1, RowToChange DEF User
    <2>3. users' = [users EXCEPT ![Schema(r)][call[r].uid] = row]
      BY <2>1, RowToChange, Names DEF TheRow, IInv, TypeOK
    <2> QED
      BY <2>1, <2>2, <2>3, RowToChange DEF Puts
  <1> QED
    BY <1>1, <1>2, <1>3

\* What such a step leaves true of the tables.
LEMMA AfterWrite ==
    ASSUME IInv, NEW r \in Requests, Writer(r), NEW u \in Uids, NEW row \in User,
           Puts(r, u, row)
    PROVE  /\ users' \in [Schemas -> [Uids -> User \cup {None}]]
           /\ UsersHonest' /\ EmailsUnique'
           /\ \A s \in Schemas, v \in Uids : Stored(s, v) => Stored(s, v)'
           /\ \A s \in Schemas : users'[s] # users[s] => s = Schema(r)
  <1>1. PICK t \in Tenants : t = Schema(r)
    BY DEF Writer
  <1>2. users \in [Schemas -> [Uids -> User \cup {None}]] /\ t \in Schemas
    BY <1>1, Names DEF IInv, TypeOK
  <1>3. users' = [users EXCEPT ![t][u] = row]
    BY <1>1 DEF Puts
  <1>4. \A s \in Schemas, v \in Uids :
           users'[s][v] = IF s = t /\ v = u THEN row ELSE users[s][v]
    BY <1>2, <1>3
  <1>5. row # None
    BY UserAccountsAssumption
  <1>6. UsersHonest'
    BY <1>1, <1>4, Names DEF UsersHonest, Honest, Stored, IInv, Puts
  <1>7. EmailsUnique'
    <2> SUFFICES ASSUME NEW s \in Schemas, NEW v \in Uids, NEW w \in Uids, v # w,
                        users'[s][v] # None, users'[s][w] # None,
                        users'[s][v].email = users'[s][w].email
                 PROVE  FALSE
      BY DEF EmailsUnique, Taken, Stored
    <2>1. \A x \in Uids \ {u} : users[t][x] # None => users[t][x].email # row.email
      BY <1>1 DEF Puts, Taken, Stored
    <2>2. CASE s = t /\ u \in {v, w}
      BY <1>4, <2>1, <2>2
    <2>3. CASE ~(s = t /\ u \in {v, w})
      BY <1>4, <2>3 DEF IInv, EmailsUnique, Taken, Stored
    <2> QED
      BY <2>2, <2>3
  <1> QED
    BY <1>1, <1>2, <1>3, <1>4, <1>5, <1>6, <1>7 DEF Stored

--------------------------------------------------------------------------------
\* Every step, seen from the tables, from history and from the other requests.

LEMMA WatchGrows ==
    ASSUME IInv, Watch
    PROVE  /\ deserved' \in [Requests -> SUBSET Token]
           /\ opened' \in [Requests -> SUBSET Tenants]
           /\ \A r \in Requests :
                 /\ deserved[r] \subseteq deserved'[r]
                 /\ opened[r] \subseteq opened'[r]
                 /\ Watched(r)'
  <1>1. \A r \in Requests : Deserved(call'[r], users') \subseteq Token
    BY DEF Deserved
  <1> QED
    BY <1>1 DEF Watch, Watched, IInv, TypeOK

LEMMA OnlyWrites ==
    ASSUME Next
    PROVE  \/ \E r \in Requests : InsertUser(r) \/ UpdateUser(r) \/ SoftDelete(r)
           \/ users' = users
  <1>1. ASSUME NEW r \in Requests, Step(r)
        PROVE  InsertUser(r) \/ UpdateUser(r) \/ SoftDelete(r) \/ users' = users
    BY <1>1 DEF Step, Handle, LoginStep, ManageStep, ListTenants, FindUser, MissUser, SignIn,
            RejectLogin, Refresh, RefuseRefresh, Resolve, Forbid, ResolveFails, ReadOld,
            FindExisting, NotFound, EmailFree, EmailExists, IndexRefuses, WriteFails, Audit
  <1> QED
    BY <1>1 DEF Next, Receive, SwitchTenant, Expire, Crash, Quiet

LEMMA TablesStep ==
    ASSUME IInv, Next
    PROVE  /\ users' \in [Schemas -> [Uids -> User \cup {None}]]
           /\ UsersHonest' /\ EmailsUnique'
           /\ \A s \in Schemas, v \in Uids : Stored(s, v) => Stored(s, v)'
  <1>1. CASE \E r \in Requests : InsertUser(r) \/ UpdateUser(r) \/ SoftDelete(r)
    <2>1. PICK r \in Requests : InsertUser(r) \/ UpdateUser(r) \/ SoftDelete(r)
      BY <1>1
    <2> QED
      BY <2>1, OneRowWritten, MayWrite, AfterWrite
  <1>2. CASE users' = users
    BY <1>2 DEF IInv, TypeOK, UsersHonest, EmailsUnique, Taken, Stored
  <1> QED
    BY <1>1, <1>2, OnlyWrites

\* Nothing happens to r but that it may die.
Kept(r) ==
    /\ call'[r] = call[r] /\ todo'[r] = todo[r] /\ found'[r] = found[r]
    /\ issued'[r] = issued[r]
    /\ pc'[r] = pc[r] \/ (pc[r] \in InFlight /\ pc'[r] = "lost")

LEMMA LoginKeepsOthers ==
    ASSUME IInv, NEW r \in Requests, NEW s \in Requests \ {r},
           Receive(r) \/ LoginStep(r) \/ Refresh(r) \/ RefuseRefresh(r) \/ Audit(r)
    PROVE  Kept(s)
  <1>1. CASE Receive(r)
    BY <1>1 DEF IInv, TypeOK, Kept, Receive
  <1>2. CASE ListTenants(r) \/ FindUser(r) \/ MissUser(r)
    BY <1>2 DEF IInv, TypeOK, Kept, ListTenants, FindUser, MissUser, Goto, Answer
  <1>3. CASE SignIn(r) \/ Refresh(r)
    BY <1>3 DEF IInv, TypeOK, Kept, SignIn, Refresh, Sign, Answer
  <1>4. CASE RejectLogin(r) \/ RefuseRefresh(r) \/ Audit(r)
    BY <1>4 DEF IInv, TypeOK, Kept, RejectLogin, RefuseRefresh, Audit, Answer, locals
  <1> QED
    BY <1>1, <1>2, <1>3, <1>4 DEF LoginStep

LEMMA ManageKeepsOthers ==
    ASSUME IInv, NEW r \in Requests, NEW s \in Requests \ {r}, ManageStep(r)
    PROVE  Kept(s)
  BY DEF IInv, TypeOK, Kept, ManageStep, Resolve, Forbid, ResolveFails, ReadOld, FindExisting,
         NotFound, EmailFree, EmailExists, InsertUser, UpdateUser, SoftDelete, IndexRefuses,
         WriteFails, Goto, Answer, Committed, locals

LEMMA WorldKeepsAll ==
    ASSUME IInv, NEW s \in Requests, SwitchTenant \/ Expire \/ Crash \/ Quiet
    PROVE  Kept(s)
  BY DEF IInv, TypeOK, Kept, SwitchTenant, Expire, Crash, Quiet, locals

\* What is kept stays true.
LEMMA KeptStays ==
    ASSUME IInv, Next, Watch, NEW s \in Requests, Kept(s)
    PROVE  Requested(s)'
  <1>1. Requested(s) /\ Watched(s)' /\ deserved[s] \subseteq deserved'[s]
        /\ opened[s] \subseteq opened'[s]
    BY WatchGrows DEF IInv
  <1>2. IssuedOK(s)'
    BY <1>1 DEF Requested, IssuedOK, Kept, InFlight, Op
  <1>3. CASE pc'[s] = "lost"
    BY <1>1, <1>2, <1>3 DEF Requested, CallOK, Passed, SearchOK, Behind
  <1>4. CASE pc'[s] = pc[s]
    <2>1. CallOK(s)'
      BY <1>1, <1>4 DEF Requested, CallOK, Kept, Op
    <2>2. Passed(s)'
      <3>1. pc'[s] \in Behind => Role(s)' = "Admin" /\ Schema(s)' \in opened'[s]
        BY <1>1, <1>4 DEF Requested, Passed, Kept, Role, Schema
      <3>2. ASSUME pc'[s] = "write" \/ (pc'[s] = "check" /\ Op(s)' = "update")
            PROVE  TheRow(s)' # None
        <4>1. /\ TheRow(s) # None /\ Schema(s) \in Schemas /\ call[s].uid \in Uids
          BY <1>1, <1>4, <3>2 DEF Requested, Passed, CallOK, Kept, Behind, Op, Token, Schema
        <4>2. Stored(Schema(s), call[s].uid)'
          BY <4>1, TablesStep DEF Stored, TheRow, Kept, Schema
        <4> QED
          BY <4>2 DEF Stored, TheRow, Kept, Schema
      <3> QED
        BY <3>1, <3>2 DEF Passed
    <2>3. SearchOK(s)'
      BY <1>1, <1>4 DEF Requested, SearchOK, Kept, Op, Accepts
    <2> QED
      BY <1>1, <1>2, <2>1, <2>2, <2>3 DEF Requested
  <1> QED
    BY <1>3, <1>4 DEF Kept

--------------------------------------------------------------------------------
\* What a request has after its own step.

\* The token that is signed is the one that SearchOK speaks of, or the user's own.
LEMMA SignedToken ==
    ASSUME IInv, NEW r \in Requests, SignIn(r) \/ Refresh(r)
    PROVE  \E token \in Token :
              /\ Sign(r, token)
              /\ Honest(token.schema, token.role)
              /\ token \in deserved[r]
              /\ Op(r) = "login" => token.schema \in opened[r]
  <1>1. CASE SignIn(r)
    <2> DEFINE token == [schema |-> found[r].schema, uid |-> found[r].uid,
                         role |-> found[r].row.role]
    <2>1. pc[r] = "verify" /\ Accepts(r) /\ Sign(r, token)
      BY <1>1 DEF SignIn
    <2>2. token \in Token /\ Honest(token.schema, token.role)
      BY <2>1 DEF IInv, Requested, SearchOK, Token, User
    <2>3. token \in deserved[r] /\ (Op(r) = "login" => token.schema \in opened[r])
      BY <2>1 DEF IInv, Requested, SearchOK
    <2> QED
      BY <2>1, <2>2, <2>3
  <1>2. CASE Refresh(r)
    <2> DEFINE token == [call[r].token EXCEPT !.role = Current(r).role]
    <2>1. /\ pc[r] = "current" /\ Usable(Current(r)) /\ Sign(r, token)
          /\ Op(r) = "refresh" /\ call[r].token \in Token
      BY <1>2 DEF Refresh, IInv, Requested, CallOK
    <2>2. /\ call[r].token.schema \in Schemas /\ call[r].token.uid \in Uids
          /\ Stored(call[r].token.schema, call[r].token.uid)
      BY <2>1 DEF Token, Usable, Current, Stored
    <2>3. Current(r) \in User /\ Honest(call[r].token.schema, Current(r).role)
      BY <2>2 DEF IInv, TypeOK, UsersHonest, Current, Stored
    <2>4. /\ token \in Token /\ token.schema = call[r].token.schema
          /\ token.uid = call[r].token.uid /\ token.role = Current(r).role
      BY <2>1, <2>3 DEF Token, User
    <2>5. token \in Deserved(call[r], users)
      BY <2>1, <2>4 DEF Deserved, Op, Current
    <2>6. token \in deserved[r]
      BY <2>1, <2>5 DEF IInv, Requested, Watched, InFlight
    <2>7. Sign(r, token) /\ Honest(token.schema, token.role) /\ Op(r) # "login"
      BY <2>1, <2>3, <2>4
    <2> QED
      BY <2>4, <2>6, <2>7
  <1> QED
    BY <1>1, <1>2

LEMMA TypeStep ==
    ASSUME IInv, Next, Watch
    PROVE  TypeOK' /\ TokensHonest' /\ DOMAIN call' = Requests
           /\ call' = [r \in DOMAIN call' |-> call'[r]]
  <1> DEFINE Typed ==
                /\ active' \in [Tenants -> BOOLEAN]
                /\ tokens' \subseteq Token
                /\ pc' \in [Requests -> {"idle", "done", "lost"} \cup InFlight]
                /\ todo' \in [Requests -> SUBSET Schemas]
                /\ found' \in [Requests -> [schema : Schemas, uid : Uids, row : User]
                                           \cup {None}]
                /\ result' \in [Requests -> {"none", "ok", "unauthorized", "forbidden",
                                 "notFound", "conflict", "serverError"}]
                /\ trail' \in [Requests -> {"none", "scheduled", "written"}]
                /\ issued' \in [Requests -> Token \cup {None}]
                /\ TokensHonest'
                /\ DOMAIN call' = Requests
                /\ call' = [r \in DOMAIN call' |-> call'[r]]
  <1>1. ASSUME NEW r \in Requests, Receive(r) PROVE Typed
    <2>1. PICK c \in Calls :
             /\ call' = [call EXCEPT ![r] = c]
             /\ pc' = [pc EXCEPT ![r] = FirstStep(c.op)]
             /\ todo' = [todo EXCEPT ![r] = IF c.op = "superLogin" THEN {Public} ELSE {}]
      BY <1>1 DEF Receive
    <2>2. FirstStep(c.op) \in InFlight
      BY DEF FirstStep, InFlight
    <2>3. (IF c.op = "superLogin" THEN {Public} ELSE {}) \in SUBSET Schemas
      BY Names
    <2>4. todo' \in [Requests -> SUBSET Schemas]
      BY <2>1, <2>3 DEF IInv, TypeOK
    <2>5. pc' \in [Requests -> {"idle", "done", "lost"} \cup InFlight]
      BY <2>1, <2>2 DEF IInv, TypeOK
    <2>6. DOMAIN call' = Requests /\ call' = [x \in DOMAIN call' |-> call'[x]]
      BY <2>1 DEF IInv
    <2> QED
      BY <1>1, <2>4, <2>5, <2>6 DEF Receive, IInv, TypeOK, TokensHonest
  <1>2. ASSUME NEW r \in Requests, ListTenants(r) PROVE Typed
    <2>1. PICK ts \in SUBSET Tenants : todo' = [todo EXCEPT ![r] = ts]
      BY <1>2 DEF ListTenants
    <2>2. todo' \in [Requests -> SUBSET Schemas]
      BY <2>1, Names DEF IInv, TypeOK
    <2>3. Goto(r, "list", "search") \/ Answer(r, "unauthorized")
      BY <1>2 DEF ListTenants
    <2> QED
      BY <1>2, <2>2, <2>3 DEF IInv, TypeOK, TokensHonest, ListTenants, Goto, Answer, InFlight
  <1>3. ASSUME NEW r \in Requests, FindUser(r) PROVE Typed
    <2>1. PICK s \in Schemas, u \in Uids :
             /\ users[s][u] \in User
             /\ found' = [found EXCEPT ![r] = [schema |-> s, uid |-> u,
                                              row |-> users[s][u]]]
      <3>1. PICK s \in todo[r], u \in Uids :
               /\ Matches(r, s, u)
               /\ found' = [found EXCEPT ![r] = [schema |-> s, uid |-> u,
                                                row |-> users[s][u]]]
        BY <1>3 DEF FindUser
      <3>2. s \in Schemas /\ users[s][u] \in User \cup {None}
        BY DEF IInv, TypeOK
      <3> QED
        BY <3>1, <3>2 DEF Matches, Stored
    <2> QED
      BY <1>3, <2>1 DEF FindUser, IInv, TypeOK, TokensHonest, Goto, InFlight
  <1>4. ASSUME NEW r \in Requests, MissUser(r) PROVE Typed
    <2>1. PICK s \in todo[r] : todo' = [todo EXCEPT ![r] = todo[r] \ {s}]
      BY <1>4 DEF MissUser
    <2>2. todo' \in [Requests -> SUBSET Schemas]
      BY <2>1 DEF IInv, TypeOK
    <2>3. Goto(r, "search", "search") \/ Answer(r, "unauthorized")
      BY <1>4 DEF MissUser
    <2> QED
      BY <1>4, <2>2, <2>3 DEF IInv, TypeOK, TokensHonest, MissUser, Goto, Answer, InFlight
  <1>5. ASSUME NEW r \in Requests, SignIn(r) \/ Refresh(r) PROVE Typed
    <2>1. PICK token \in Token : Sign(r, token) /\ Honest(token.schema, token.role)
      BY <1>5, SignedToken
    <2> QED
      BY <1>5, <2>1 DEF SignIn, Refresh, Sign, Answer, IInv, TypeOK, TokensHonest
  <1>6. ASSUME NEW r \in Requests, RejectLogin(r) \/ RefuseRefresh(r) \/ Audit(r)
        PROVE  Typed
    <2>1. CASE RejectLogin(r) \/ RefuseRefresh(r)
      <3>1. Answer(r, "unauthorized") /\ UNCHANGED <<active, tokens, locals>>
        BY <2>1 DEF RejectLogin, RefuseRefresh
      <3> QED
        BY <3>1 DEF IInv, TypeOK, TokensHonest, Answer, locals
    <2>2. CASE Audit(r)
      BY <2>2 DEF IInv, TypeOK, TokensHonest, Audit
    <2> QED
      BY <1>6, <2>1, <2>2
  <1>7. ASSUME NEW r \in Requests, Resolve(r) \/ Forbid(r) \/ ResolveFails(r)
        PROVE  Typed
    <2>1. CASE Resolve(r)
      BY <2>1 DEF IInv, TypeOK, TokensHonest, Resolve, Goto, InFlight, locals
    <2>2. CASE Forbid(r) \/ ResolveFails(r)
      <3>1. /\ Answer(r, "forbidden") \/ Answer(r, "serverError")
            /\ UNCHANGED <<active, tokens, locals>>
        BY <2>2 DEF Forbid, ResolveFails
      <3> QED
        BY <3>1 DEF IInv, TypeOK, TokensHonest, Answer, locals
    <2> QED
      BY <1>7, <2>1, <2>2
  <1>8. ASSUME NEW r \in Requests,
               ReadOld(r) \/ FindExisting(r) \/ NotFound(r) \/ EmailFree(r) \/ EmailExists(r)
        PROVE  Typed
    <2>1. CASE ReadOld(r) \/ FindExisting(r)
      BY <2>1 DEF IInv, TypeOK, TokensHonest, ReadOld, FindExisting, Goto, InFlight, locals
    <2>2. CASE NotFound(r)
      <3>1. Answer(r, "notFound") /\ UNCHANGED <<active, tokens, locals>>
        BY <2>2 DEF NotFound
      <3> QED
        BY <3>1 DEF IInv, TypeOK, TokensHonest, Answer, locals
    <2>3. CASE EmailFree(r)
      BY <2>3 DEF IInv, TypeOK, TokensHonest, EmailFree, Goto, InFlight, locals
    <2>4. CASE EmailExists(r)
      <3>1. Answer(r, "conflict") /\ UNCHANGED <<active, tokens, locals>>
        BY <2>4 DEF EmailExists
      <3> QED
        BY <3>1 DEF IInv, TypeOK, TokensHonest, Answer, locals
    <2> QED
      BY <1>8, <2>1, <2>2, <2>3, <2>4
  <1>9. ASSUME NEW r \in Requests,
               InsertUser(r) \/ UpdateUser(r) \/ SoftDelete(r) \/ IndexRefuses(r)
               \/ WriteFails(r)
        PROVE  Typed
    <2>1. \/ Committed(r)
          \/ Answer(r, "serverError") /\ UNCHANGED trail
          \/ Answer(r, "ok") /\ trail' = [trail EXCEPT ![r] = "scheduled"]
      BY <1>9 DEF InsertUser, UpdateUser, SoftDelete, IndexRefuses, WriteFails, locals
    <2>2. /\ pc' \in [Requests -> {"idle", "done", "lost"} \cup InFlight]
          /\ trail' \in [Requests -> {"none", "scheduled", "written"}]
          /\ result' \in [Requests -> {"none", "ok", "unauthorized", "forbidden",
                            "notFound", "conflict", "serverError"}]
      BY <2>1 DEF IInv, TypeOK, Committed, Answer
    <2>3. UNCHANGED <<active, tokens, call, todo, found, issued>>
      BY <1>9 DEF InsertUser, UpdateUser, SoftDelete, IndexRefuses, WriteFails, locals
    <2> QED
      BY <2>2, <2>3 DEF IInv, TypeOK, TokensHonest
  <1>10. ASSUME SwitchTenant \/ Expire \/ Crash \/ Quiet PROVE Typed
    <2>1. CASE SwitchTenant
      BY <2>1 DEF IInv, TypeOK, TokensHonest, SwitchTenant, locals
    <2>2. CASE Expire
      BY <2>2 DEF IInv, TypeOK, TokensHonest, Expire, locals
    <2>3. CASE Crash
      BY <2>3 DEF IInv, TypeOK, TokensHonest, Crash
    <2>4. CASE Quiet
      BY <2>4 DEF IInv, TypeOK, TokensHonest, Quiet, locals
    <2> QED
      BY <1>10, <2>1, <2>2, <2>3, <2>4
  <1>11. Typed
    BY <1>1, <1>2, <1>3, <1>4, <1>5, <1>6, <1>7, <1>8, <1>9, <1>10
       DEF Next, Step, Handle, LoginStep, ManageStep
  <1> QED
    BY <1>11, TablesStep, WatchGrows DEF TypeOK

\* r's own step ends the request, without a token, or with one it deserved.
LEMMA OwnEnd ==
    ASSUME IInv, Next, Watch, NEW r \in Requests, call' = call, pc'[r] = "done",
           \/ issued'[r] = issued[r]
           \/ \E token \in Token :
                 /\ Sign(r, token)
                 /\ token \in deserved[r]
                 /\ Op(r) = "login" => token.schema \in opened[r]
    PROVE  Requested(r)'
  <1>1. issued[r] # None =>
           issued[r] \in deserved[r] /\ (Op(r) = "login" => issued[r].schema \in opened[r])
    BY DEF IInv, Requested, IssuedOK
  <1>2. IssuedOK(r)'
    BY <1>1, WatchGrows DEF IssuedOK, Op, Sign, IInv, TypeOK
  <1> QED
    BY <1>2, WatchGrows DEF Requested, CallOK, Passed, SearchOK, Behind

LEMMA ReceiveStep ==
    ASSUME IInv, Next, Watch, NEW r \in Requests, Receive(r)
    PROVE  Requested(r)'
  <1>1. PICK c \in Calls : call' = [call EXCEPT ![r] = c]
                           /\ pc' = [pc EXCEPT ![r] = FirstStep(c.op)]
                           /\ todo' = [todo EXCEPT ![r] =
                                         IF c.op = "superLogin" THEN {Public} ELSE {}]
    BY DEF Receive
  <1>2. call'[r] = c /\ pc'[r] = FirstStep(c.op) /\ issued'[r] = None
    BY <1>1 DEF IInv, TypeOK, Receive, Requested, IssuedOK
  <1>3. /\ FirstStep(c.op) = "list" => c.op = "login"
        /\ FirstStep(c.op) = "search" => c.op = "superLogin"
        /\ FirstStep(c.op) = "current" => c.op = "refresh"
        /\ FirstStep(c.op) = "resolve" => c.op \in Managing
        /\ FirstStep(c.op) \in {"list", "search", "current", "resolve"}
    BY DEF FirstStep, Calls, Logins, Managing
  <1>4. c.op \in {"refresh"} \cup Managing => c.token \in tokens
    BY DEF Calls, Logins, Managing
  <1>5. /\ c.op = "create" => c.row \in NewUser
        /\ c.op \in {"update", "delete"} => c.uid \in Uids
        /\ c.op = "update" => c.patch \in Patch
    BY UserAccountsAssumption DEF Calls, Logins
  <1>6. CallOK(r)'
    <2>1. pc'[r] \in {"current", "resolve"} =>
             c.token \in Token /\ Honest(c.token.schema, c.token.role)
      BY <1>2, <1>3, <1>4 DEF IInv, TypeOK, TokensHonest
    <2> QED
      BY <1>2, <1>3, <1>5, <2>1 DEF CallOK, Op, Behind, Logins, Managing
  <1>7. Passed(r)'
    BY <1>2, <1>3 DEF Passed, Behind
  <1>8. SearchOK(r)'
    BY <1>1, <1>2, <1>3 DEF SearchOK, Op, IInv, TypeOK
  <1>9. IssuedOK(r)'
    BY <1>2 DEF IssuedOK
  <1> QED
    BY <1>6, <1>7, <1>8, <1>9, WatchGrows DEF Requested

LEMMA LoginStepInv ==
    ASSUME IInv, Next, Watch, NEW r \in Requests, LoginStep(r)
    PROVE  Requested(r)'
  <1>0. /\ Requested(r) /\ Watched(r)' /\ opened[r] \subseteq opened'[r]
        /\ opened[r] \subseteq Tenants /\ todo[r] \subseteq Schemas
    BY WatchGrows DEF IInv, TypeOK
  <1>1. CASE ListTenants(r)
    <2>1. PICK ts \in SUBSET {t \in Tenants : active[t]} :
             /\ todo' = [todo EXCEPT ![r] = ts]
             /\ IF ts = {} THEN Answer(r, "unauthorized") ELSE Goto(r, "list", "search")
      BY <1>1 DEF ListTenants
    <2>2. pc[r] = "list" /\ call' = call /\ issued' = issued
      BY <1>1 DEF ListTenants
    <2>3. CASE Answer(r, "unauthorized")
      BY <2>2, <2>3, OwnEnd DEF Answer, IInv, TypeOK
    <2>4. CASE Goto(r, "list", "search")
      <3>1. pc'[r] = "search" /\ todo'[r] = ts /\ Op(r)' = "login" /\ issued'[r] = None
        BY <1>0, <2>1, <2>2, <2>4
           DEF Goto, IInv, TypeOK, Requested, CallOK, IssuedOK, Op
      <3>2. ts \subseteq opened[r]
        BY <1>0, <2>2 DEF Requested, Watched, InFlight
      <3> QED
        BY <1>0, <3>1, <3>2
           DEF Requested, CallOK, Passed, SearchOK, IssuedOK, Behind, Logins
    <2> QED
      BY <2>1, <2>3, <2>4
  <1>2. CASE FindUser(r)
    <2>1. PICK s \in todo[r], u \in Uids :
             /\ Matches(r, s, u)
             /\ found' = [found EXCEPT ![r] = [schema |-> s, uid |-> u,
                                              row |-> users[s][u]]]
      BY <1>2 DEF FindUser
    <2>2. /\ pc[r] = "search" /\ pc'[r] = "verify" /\ call' = call /\ users' = users
          /\ issued'[r] = issued[r]
      BY <1>2 DEF FindUser, Goto, IInv, TypeOK
    <2>3. /\ s \in Schemas /\ users[s][u] \in User /\ users[s][u].email = call[r].email
          /\ Honest(s, users[s][u].role)
      BY <1>0, <2>1 DEF IInv, TypeOK, UsersHonest, Matches, Stored
    <2>4. /\ found'[r].schema = s /\ found'[r].uid = u /\ found'[r].row = users[s][u]
          /\ found'[r] \in [schema : Schemas, uid : Uids, row : User]
      BY <2>1, <2>3 DEF IInv, TypeOK
    <2>5. /\ Op(r) \in Logins
          /\ Op(r) = "login" => s \in opened[r]
          /\ Op(r) = "superLogin" => s = Public
      BY <1>0, <2>2 DEF Requested, CallOK, SearchOK, Logins
    <2>6. Op(r) = IF s = Public THEN "superLogin" ELSE "login"
      BY <1>0, <2>5, Names DEF Logins
    <2> DEFINE token == [schema |-> s, uid |-> u, role |-> users[s][u].role]
    <2>7. ASSUME Accepts(r)' PROVE token \in deserved'[r]
      <3>1. users[s][u].password = call[r].password /\ users[s][u].is_active
        BY <2>2, <2>4, <2>7 DEF Accepts
      <3>2. token \in Token /\ users[s][u] # None
        BY <2>3, <2>1 DEF Token, User, Matches, Stored
      <3>3. token \in Deserved(call[r], users)
        BY <2>3, <2>6, <3>1, <3>2 DEF Deserved, Usable, Op
      <3>4. Deserved(call[r], users) \subseteq deserved[r]
        BY <1>0, <2>2 DEF Requested, Watched, InFlight
      <3> QED
        BY <3>3, <3>4, WatchGrows
    <2>8. SearchOK(r)'
      BY <1>0, <2>2, <2>3, <2>4, <2>5, <2>7 DEF SearchOK, Op
    <2>9. CallOK(r)' /\ Passed(r)'
      BY <2>2, <2>5 DEF CallOK, Passed, Behind, Op
    <2>10. IssuedOK(r)'
      BY <1>0, <2>2 DEF Requested, IssuedOK
    <2> QED
      BY <1>0, <2>8, <2>9, <2>10 DEF Requested
  <1>3. CASE MissUser(r)
    <2>1. PICK s \in todo[r] :
             /\ todo' = [todo EXCEPT ![r] = todo[r] \ {s}]
             /\ IF todo[r] = {s} THEN Answer(r, "unauthorized")
                                 ELSE Goto(r, "search", "search")
      BY <1>3 DEF MissUser
    <2>2. pc[r] = "search" /\ call' = call /\ issued' = issued
      BY <1>3 DEF MissUser
    <2>3. CASE Answer(r, "unauthorized")
      BY <2>2, <2>3, OwnEnd DEF Answer, IInv, TypeOK
    <2>4. CASE Goto(r, "search", "search")
      <3>1. /\ pc'[r] = "search" /\ todo'[r] \subseteq todo[r] /\ Op(r)' = Op(r)
            /\ issued'[r] = None /\ Op(r) \in Logins
        BY <1>0, <2>1, <2>2, <2>4
           DEF Goto, IInv, TypeOK, Requested, CallOK, IssuedOK, Op
      <3>2. todo[r] \subseteq IF Op(r) = "login" THEN opened[r] ELSE {Public}
        BY <1>0, <2>2 DEF Requested, SearchOK
      <3>3. SearchOK(r)'
        BY <1>0, <3>1, <3>2 DEF SearchOK
      <3> QED
        BY <1>0, <3>1, <3>3
           DEF Requested, CallOK, Passed, IssuedOK, Behind
    <2> QED
      BY <2>1, <2>3, <2>4
  <1>4. CASE SignIn(r)
    <2>1. call' = call
      BY <1>4 DEF SignIn
    <2>2. PICK token \in Token :
             /\ Sign(r, token) /\ token \in deserved[r]
             /\ Op(r) = "login" => token.schema \in opened[r]
      BY <1>4, SignedToken
    <2>3. pc'[r] = "done"
      BY <2>2 DEF Sign, Answer, IInv, TypeOK
    <2> QED
      BY <2>1, <2>2, <2>3, OwnEnd
  <1>5. CASE RejectLogin(r)
    BY <1>5, OwnEnd DEF RejectLogin, Answer, locals, IInv, TypeOK
  <1> QED
    BY <1>1, <1>2, <1>3, <1>4, <1>5 DEF LoginStep

LEMMA RefreshInv ==
    ASSUME IInv, Next, Watch, NEW r \in Requests, Refresh(r) \/ RefuseRefresh(r)
    PROVE  Requested(r)'
  <1>1. CASE Refresh(r)
    <2>1. call' = call
      BY <1>1 DEF Refresh
    <2>2. PICK token \in Token :
             /\ Sign(r, token) /\ token \in deserved[r]
             /\ Op(r) = "login" => token.schema \in opened[r]
      BY <1>1, SignedToken
    <2>3. pc'[r] = "done"
      BY <2>2 DEF Sign, Answer, IInv, TypeOK
    <2> QED
      BY <2>1, <2>2, <2>3, OwnEnd
  <1>2. CASE RefuseRefresh(r)
    <2>1. Answer(r, "unauthorized") /\ UNCHANGED locals
      BY <1>2 DEF RefuseRefresh
    <2> QED
      BY <2>1, OwnEnd DEF Answer, locals, IInv, TypeOK
  <1> QED
    BY <1>1, <1>2

\* r goes on behind the middleware, where it may.
LEMMA ManageGoesOn ==
    ASSUME IInv, Next, Watch, NEW r \in Requests, UNCHANGED <<users, locals>>,
           pc[r] \in InFlight, pc'[r] \in Behind, Op(r) \in Managing,
           call[r].token \in Token, Honest(Schema(r), Role(r)),
           Role(r) = "Admin", Schema(r) \in opened[r],
           Op(r) = "create" => call[r].row \in NewUser /\ pc'[r] \in {"check", "insert"},
           Op(r) # "create" => call[r].uid \in Uids /\ pc'[r] # "insert",
           Op(r) = "update" => call[r].patch \in Patch,
           Op(r) = "delete" => pc'[r] # "check",
           pc'[r] = "write" \/ (pc'[r] = "check" /\ Op(r) = "update") => TheRow(r) # None
    PROVE  Requested(r)'
  <1>1. call' = call /\ issued' = issued /\ opened[r] \subseteq opened'[r] /\ Watched(r)'
    BY WatchGrows DEF locals
  <1>2. CallOK(r)'
    BY <1>1 DEF CallOK, Behind, Managing, Logins, Op, Schema, Role
  <1>3. Passed(r)'
    BY <1>1 DEF Passed, Op, Schema, Role, TheRow
  <1>4. SearchOK(r)'
    BY DEF SearchOK, Behind
  <1>5. IssuedOK(r)'
    BY <1>1 DEF IInv, Requested, IssuedOK, InFlight
  <1> QED
    BY <1>1, <1>2, <1>3, <1>4, <1>5 DEF Requested

LEMMA ManageStepInv ==
    ASSUME IInv, Next, Watch, NEW r \in Requests, ManageStep(r)
    PROVE  Requested(r)'
  <1>1. CASE Resolve(r)
    <2>1. /\ pc[r] = "resolve" /\ Op(r) \in Permissions(Role(r)) /\ Schema(r) \in OpenSchemas
          /\ pc'[r] = IF Op(r) = "create" THEN "check" ELSE "old"
          /\ UNCHANGED <<users, locals>>
      BY <1>1 DEF Resolve, Goto, IInv, TypeOK
    <2>2. /\ Op(r) \in Managing /\ call[r].token \in Token /\ Honest(Schema(r), Role(r))
          /\ Op(r) = "create" => call[r].row \in NewUser
          /\ Op(r) # "create" => call[r].uid \in Uids
          /\ Op(r) = "update" => call[r].patch \in Patch
      BY <2>1 DEF IInv, Requested, CallOK, Schema, Role
    <2>3. Role(r) = "Admin"
      BY <2>1 DEF Permissions
    <2>4. Schema(r) \in Tenants /\ active[Schema(r)]
      BY <2>1, <2>2, <2>3, Names DEF Honest, OpenSchemas
    <2>5. Schema(r) \in opened[r]
      BY <2>1, <2>4 DEF IInv, Requested, Watched, InFlight
    <2> QED
      BY <2>1, <2>2, <2>3, <2>5, ManageGoesOn DEF Behind, InFlight, Managing
  <1>2. CASE ReadOld(r) \/ FindExisting(r) \/ EmailFree(r)
    <2>1. /\ pc[r] \in {"old", "find", "check"}
          /\ pc[r] = "old" => pc'[r] = "find"
          /\ pc[r] = "find" => TheRow(r) # None /\ pc'[r] \in {"check", "write"}
          /\ pc[r] = "find" /\ pc'[r] = "check" => Op(r) = "update"
          /\ pc[r] = "check" => pc'[r] = IF Op(r) = "create" THEN "insert" ELSE "write"
          /\ UNCHANGED <<users, locals>>
      BY <1>2 DEF ReadOld, FindExisting, EmailFree, Goto, IInv, TypeOK
    <2>2. /\ Op(r) \in Managing /\ call[r].token \in Token /\ Honest(Schema(r), Role(r))
          /\ Op(r) = "create" => call[r].row \in NewUser
          /\ Op(r) # "create" => call[r].uid \in Uids
          /\ Op(r) = "update" => call[r].patch \in Patch
          /\ pc[r] \in {"old", "find"} => Op(r) # "create"
          /\ pc[r] = "check" => Op(r) # "delete"
      BY <2>1 DEF IInv, Requested, CallOK, Schema, Role, Behind
    <2>3. Role(r) = "Admin" /\ Schema(r) \in opened[r]
      BY <2>1 DEF IInv, Requested, Passed, Behind
    <2>4. pc[r] = "check" /\ Op(r) = "update" => TheRow(r) # None
      BY DEF IInv, Requested, Passed
    <2> QED
      BY <2>1, <2>2, <2>3, <2>4, ManageGoesOn DEF Behind, InFlight, Managing
  <1>3. CASE Forbid(r) \/ ResolveFails(r) \/ NotFound(r) \/ EmailExists(r) \/ IndexRefuses(r)
    <2>1. UNCHANGED locals /\ \E res \in {"forbidden", "serverError", "notFound", "conflict"} :
                                Answer(r, res)
      BY <1>3 DEF Forbid, ResolveFails, NotFound, EmailExists, IndexRefuses
    <2> QED
      BY <2>1, OwnEnd DEF Answer, locals, IInv, TypeOK
  <1>4. CASE InsertUser(r) \/ UpdateUser(r) \/ SoftDelete(r) \/ WriteFails(r)
    <2>1. call' = call /\ issued' = issued /\ \E res \in {"ok", "serverError"} : Answer(r, res)
      BY <1>4 DEF InsertUser, UpdateUser, SoftDelete, WriteFails, Committed
    <2> QED
      BY <2>1, OwnEnd DEF Answer, IInv, TypeOK
  <1> QED
    BY <1>1, <1>2, <1>3, <1>4 DEF ManageStep

--------------------------------------------------------------------------------
\* The invariant, and what it gives.

LEMMA NextInv == IInv /\ [Next]_vars => IInv'
  <1> SUFFICES ASSUME IInv, [Next]_vars PROVE IInv'
    OBVIOUS
  <1>1. CASE UNCHANGED vars
    <2>1. TypeOK' /\ UsersHonest' /\ TokensHonest' /\ EmailsUnique'
      BY <1>1 DEF vars, IInv, TypeOK, UsersHonest, TokensHonest, EmailsUnique, Taken, Stored
    <2>2. ASSUME NEW r \in Requests PROVE Requested(r)'
      <3>1. CallOK(r)' /\ Passed(r)' /\ IssuedOK(r)'
        BY <1>1 DEF vars, IInv, Requested, CallOK, Passed, IssuedOK, Op, Schema, Role, TheRow
      <3>2. SearchOK(r)' /\ Watched(r)'
        BY <1>1 DEF vars, IInv, Requested, SearchOK, Watched, Op, Accepts
      <3> QED
        BY <3>1, <3>2 DEF Requested
    <2>3. DOMAIN call' = Requests /\ call' = [r \in DOMAIN call' |-> call'[r]]
      BY <1>1 DEF vars, IInv
    <2> QED
      BY <2>1, <2>2, <2>3 DEF IInv
  <1>2. CASE Next
    <2>1. Watch
      BY <1>2 DEF Next, Step
    <2>2. ASSUME NEW s \in Requests PROVE Requested(s)'
      <3>1. CASE \E r \in Requests : Receive(r) \/ Handle(r)
        <4>1. PICK r \in Requests : Receive(r) \/ Handle(r)
          BY <3>1
        <4>2. CASE r # s
          <5>1. Kept(s)
            BY <4>1, <4>2, LoginKeepsOthers, ManageKeepsOthers DEF Handle
          <5> QED
            BY <1>2, <2>1, <5>1, KeptStays
        <4>3. CASE r = s /\ Audit(s)
          <5>1. Kept(s)
            BY <4>3 DEF Audit, Kept
          <5> QED
            BY <1>2, <2>1, <5>1, KeptStays
        <4>4. CASE r = s /\ ~Audit(s)
          BY <1>2, <2>1, <4>1, <4>4, ReceiveStep, LoginStepInv, RefreshInv, ManageStepInv
             DEF Handle
        <4> QED
          BY <4>2, <4>3, <4>4
      <3>2. CASE SwitchTenant \/ Expire \/ Crash \/ Quiet
        <4>1. Kept(s)
          BY <3>2, WorldKeepsAll
        <4> QED
          BY <1>2, <2>1, <4>1, KeptStays
      <3> QED
        BY <1>2, <3>1, <3>2 DEF Next, Step
    <2> QED
      BY <1>2, <2>1, <2>2, TypeStep, TablesStep DEF IInv
  <1> QED
    BY <1>1, <1>2

LEMMA Invariance == Spec => []IInv
  BY InitIInv, NextInv, PTL DEF Spec

\* Every variable keeps its type, whatever is called and fails.
THEOREM TypeCorrect == Spec => []TypeOK
  <1>1. IInv => TypeOK
    BY DEF IInv
  <1> QED
    BY <1>1, Invariance, PTL

\* No two users of a schema ever have one email: creations and PATCHes that all
\* found it free (user.service.js:142, 214) are kept apart by the unique index.
THEOREM EmailsUniqueHolds == Spec => []EmailsUnique
  <1>1. IInv => EmailsUnique
    BY DEF IInv
  <1> QED
    BY <1>1, Invariance, PTL

\* A login or refresh answers with a token that was right at one moment while it was
\* open (user.service.js:86-118, 250-274), however users and tenants change.
THEOREM TokensJustifiedHolds == Spec => []TokensJustified
  <1>1. IInv => TokensJustified
    BY DEF IInv, Requested, IssuedOK, TokensJustified
  <1> QED
    BY <1>1, Invariance, PTL

\* Users change only for an admin of their tenant who met it active, however long
\* ago the middleware looked (user.routes.js); those of public never do.
THEOREM WritesAuthorisedHolds == Spec => WritesAuthorised
  <1> DEFINE Authorised ==
               \A s \in Schemas : users'[s] # users[s] =>
                  \E r \in Requests :
                      /\ pc[r] # pc'[r]
                      /\ Op(r) \in Managing
                      /\ Schema(r) = s /\ Role(r) = "Admin" /\ s \in opened[r]
  <1>1. ASSUME IInv, Next PROVE Authorised
    <2>1. CASE \E r \in Requests : InsertUser(r) \/ UpdateUser(r) \/ SoftDelete(r)
      <3>1. PICK r \in Requests : InsertUser(r) \/ UpdateUser(r) \/ SoftDelete(r)
        BY <2>1
      <3>2. Writer(r) /\ \A s \in Schemas : users'[s] # users[s] => s = Schema(r)
        BY <1>1, <3>1, MayWrite, OneRowWritten, AfterWrite
      <3>3. pc[r] # pc'[r]
        BY <3>2 DEF Writer, Behind
      <3> QED
        BY <3>2, <3>3 DEF Writer
    <2>2. CASE users' = users
      BY <2>2
    <2> QED
      BY <1>1, <2>1, <2>2, OnlyWrites
  <1>2. IInv /\ [Next]_vars => [Authorised]_vars
    BY <1>1
  <1> QED
    BY <1>2, Invariance, PTL DEF Spec, WritesAuthorised
================================================================================
