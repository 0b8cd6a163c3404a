-------------------------- MODULE ConnectionPoolProofs --------------------------
(***************************************************************************)
(* Theorems about ConnectionPool, for any requests, connections, tenants   *)
(* and faults.  What a request has follows from where it is in its script  *)
(* (InTx); that everybody who is in line waits there once keeps the pool   *)
(* from serving a request twice (Line).                                    *)
(***************************************************************************)
EXTENDS ConnectionPool, FiniteSetTheorems, SequenceTheorems, TLAPS

\* The statements of createTenant between BEGIN and COMMIT.
InTx(c, i) == c.op = "createTenant" /\ i \in 3..(8 + Migrations)

\* An open request is at a statement of its script, and has a transaction exactly
\* between BEGIN and COMMIT.
AtStatement(r) ==
    pc[r] \in {"waiting", "running"} =>
        /\ call[r] \in Calls
        /\ step[r] \in 1..Len(Script(call[r]))
        /\ tx[r] # None <=> InTx(call[r], step[r])

\* What a request has in each state of it.
Has(r) ==
    /\ pc[r] = "running" =>
          on[r] \in Conns /\ (Current(r).kind \in {"tx", "commit"} <=> on[r] = tx[r])
    /\ pc[r] # "running" => on[r] = None
    /\ pc[r] = "waiting" => Current(r).kind \notin {"tx", "commit"}
    /\ pc[r] = "rollback" => tx[r] # None
    /\ pc[r] \in {"idle", "done"} => tx[r] = None

\* Who is in a line q is none of those in R, and is there once.
Waiting(q, R) ==
    /\ q \in Seq(Requests)
    /\ \A i \in 1..Len(q) : q[i] \notin R /\ pc[q[i]] = "waiting"
    /\ \A i, j \in 1..Len(q) : q[i] = q[j] => i = j

Owned == \A c \in Conns, r \in Requests : owner[c] = r <=> tx[r] = c \/ on[r] = c

IInv ==
    /\ TypeOK
    /\ Owned
    /\ Waiting(queue, {})
    /\ \A r \in Requests : AtStatement(r) /\ Has(r)

--------------------------------------------------------------------------------
\* Scripts.

LEMMA Concat ==
    ASSUME NEW S, NEW s \in Seq(S), NEW q \in Seq(S)
    PROVE  /\ s \o q \in Seq(S) /\ Len(s \o q) = Len(s) + Len(q)
           /\ \A i \in 1..Len(s) : (s \o q)[i] = s[i]
           /\ \A i \in 1..Len(q) : (s \o q)[Len(s) + i] = q[i]
  <1>1. /\ Len(s) \in Nat /\ Len(q) \in Nat
        /\ s \o q \in Seq(S) /\ Len(s \o q) = Len(s) + Len(q)
    BY ConcatProperties, LenProperties
  <1>2. ASSUME NEW i \in 1..(Len(s) + Len(q))
        PROVE  (s \o q)[i] = IF i <= Len(s) THEN s[i] ELSE q[i - Len(s)]
    BY <1>2, ConcatProperties
  <1> QED
    BY <1>1, <1>2

\* createTenant's statements, each at its place: the migrations are in between.
LEMMA CreateTenantShape ==
    ASSUME NEW t \in Tenants
    PROVE  /\ CreateTenantScript(t) \in Seq([kind : Kinds, schema : Schemas])
           /\ Len(CreateTenantScript(t)) = 9 + Migrations
           /\ \A i \in 1..(9 + Migrations) :
                 /\ CreateTenantScript(t)[i].kind = "begin" <=> i = 2
                 /\ CreateTenantScript(t)[i].kind = "tx" <=> i = 4 \/ i = 7 + Migrations
                 /\ CreateTenantScript(t)[i].kind = "commit" <=> i = 8 + Migrations
  <1> USE ConnectionPoolAssumption
  <1> DEFINE S == [kind : Kinds, schema : Schemas]
             a == <<Stmt("path", Public), Stmt("begin", Public), Stmt("own", Public),
                    Stmt("tx", Public), Stmt("own", t), Stmt("path", t)>>
             b == Times(Migrations, Stmt("own", t))
             d == <<Stmt("tx", t), Stmt("commit", Public), Stmt("own", Public)>>
  <1>1. \A k \in Kinds, s \in Schemas : Stmt(k, s) \in S /\ Stmt(k, s).kind = k
    BY DEF Stmt
  <1>2. Public \in Schemas /\ t \in Schemas
    BY DEF Schemas
  <1>3. /\ a \in Seq(S) /\ Len(a) = 6
        /\ a[1].kind = "path" /\ a[2].kind = "begin" /\ a[3].kind = "own"
        /\ a[4].kind = "tx" /\ a[5].kind = "own" /\ a[6].kind = "path"
    BY <1>1, <1>2 DEF Kinds
  <1>4. b \in Seq(S) /\ Len(b) = Migrations /\ \A i \in 1..Migrations : b[i].kind = "own"
    BY <1>1, <1>2 DEF Kinds, Times
  <1>5. /\ d \in Seq(S) /\ Len(d) = 3
        /\ d[1].kind = "tx" /\ d[2].kind = "commit" /\ d[3].kind = "own"
    BY <1>1, <1>2 DEF Kinds
  <1>6. CreateTenantScript(t) = (a \o b) \o d
    BY DEF CreateTenantScript
  <1> HIDE DEF a, b, d, S
  <1>7. /\ a \o b \in Seq(S) /\ Len(a \o b) = 6 + Migrations
        /\ \A i \in 1..6 : (a \o b)[i] = a[i]
        /\ \A i \in 7..(6 + Migrations) : (a \o b)[i] = b[i - 6]
    <2>1. /\ a \o b \in Seq(S) /\ Len(a \o b) = Len(a) + Len(b)
          /\ \A i \in 1..Len(a) : (a \o b)[i] = a[i]
          /\ \A i \in 1..Len(b) : (a \o b)[Len(a) + i] = b[i]
      <3>1. a \in Seq(S) /\ b \in Seq(S)
        BY <1>3, <1>4
      <3> QED
        BY <3>1, Concat
    <2>2. ASSUME NEW i \in 7..(6 + Migrations) PROVE (a \o b)[i] = b[i - 6]
      <3>1. i - 6 \in 1..Len(b) /\ i = Len(a) + (i - 6)
        BY <1>3, <1>4
      <3> QED
        BY <2>1, <3>1
    <2> QED
      BY <1>3, <1>4, <2>1, <2>2
  <1>8. /\ (a \o b) \o d \in Seq(S) /\ Len((a \o b) \o d) = 9 + Migrations
        /\ \A i \in 1..(6 + Migrations) : ((a \o b) \o d)[i] = (a \o b)[i]
        /\ \A i \in (7 + Migrations)..(9 + Migrations) :
              ((a \o b) \o d)[i] = d[i - (6 + Migrations)]
    <2> DEFINE ab == a \o b
    <2>0. ab \in Seq(S) /\ Len(ab) = 6 + Migrations
      BY <1>7
    <2> HIDE DEF ab
    <2>1. /\ ab \o d \in Seq(S) /\ Len(ab \o d) = Len(ab) + Len(d)
          /\ \A i \in 1..Len(ab) : (ab \o d)[i] = ab[i]
          /\ \A i \in 1..Len(d) : (ab \o d)[Len(ab) + i] = d[i]
      <3>1. ab \in Seq(S) /\ d \in Seq(S)
        BY <1>5, <2>0
      <3> QED
        BY <3>1, Concat
    <2>3. ASSUME NEW i \in (7 + Migrations)..(9 + Migrations)
          PROVE  (ab \o d)[i] = d[i - (6 + Migrations)]
      <3>1. i - (6 + Migrations) \in 1..Len(d) /\ i = Len(ab) + (i - (6 + Migrations))
        BY <1>5, <2>0
      <3> QED
        BY <2>1, <3>1
    <2>2. /\ ab \o d \in Seq(S) /\ Len(ab \o d) = 9 + Migrations
          /\ \A i \in 1..(6 + Migrations) : (ab \o d)[i] = ab[i]
          /\ \A i \in (7 + Migrations)..(9 + Migrations) :
                (ab \o d)[i] = d[i - (6 + Migrations)]
      BY <1>5, <2>0, <2>1, <2>3
    <2> QED
      BY <2>2 DEF ab
  <1>9. ASSUME NEW i \in 1..(9 + Migrations)
        PROVE  /\ CreateTenantScript(t)[i].kind = "begin" <=> i = 2
               /\ CreateTenantScript(t)[i].kind = "tx" <=> i = 4 \/ i = 7 + Migrations
               /\ CreateTenantScript(t)[i].kind = "commit" <=> i = 8 + Migrations
    <2>1. CASE i \in 1..6
      <3>1. CreateTenantScript(t)[i] = a[i]
        <4>1. i \in 1..(6 + Migrations)
          BY <2>1
        <4> QED
          BY <2>1, <4>1, <1>6, <1>7, <1>8
      <3>2. i = 1 \/ i = 2 \/ i = 3 \/ i = 4 \/ i = 5 \/ i = 6
        BY <2>1
      <3> QED
        BY <3>1, <3>2, <1>3
    <2>2. CASE i \in 7..(6 + Migrations)
      <3>1. i \in 1..(6 + Migrations) /\ i - 6 \in 1..Migrations
        BY <2>2
      <3>2. CreateTenantScript(t)[i] = b[i - 6]
        BY <2>2, <3>1, <1>6, <1>7, <1>8
      <3> QED
        BY <2>2, <3>1, <3>2, <1>4
    <2>3. CASE i \in (7 + Migrations)..(9 + Migrations)
      <3>1. CreateTenantScript(t)[i] = d[i - (6 + Migrations)]
        BY <2>3, <1>6, <1>8
      <3>2. \/ i = 7 + Migrations /\ i - (6 + Migrations) = 1
            \/ i = 8 + Migrations /\ i - (6 + Migrations) = 2
            \/ i = 9 + Migrations /\ i - (6 + Migrations) = 3
        BY <2>3
      <3> QED
        BY <3>1, <3>2, <1>5
    <2> QED
      BY <2>1, <2>2, <2>3
  <1> QED
    BY <1>6, <1>8, <1>9 DEF S

\* The other scripts have no transaction.
LEMMA PlainShape ==
    ASSUME NEW t \in Tenants, NEW s \in {WriteScript(t), ListScript(t)}
    PROVE  /\ s \in Seq([kind : Kinds, schema : Schemas])
           /\ Len(s) >= 1
           /\ \A i \in 1..Len(s) : s[i].kind \in {"own", "path", "lenient"}
  <1> USE ConnectionPoolAssumption
  <1> DEFINE S == [kind : {"own", "path", "lenient"}, schema : Schemas]
  <1>1. \A k \in {"own", "path", "lenient"}, x \in Schemas : Stmt(k, x) \in S
    BY DEF Stmt
  <1>2. Public \in Schemas /\ t \in Schemas
    BY DEF Schemas
  <1> DEFINE a == <<Stmt("own", Public), Stmt("path", t)>>
             b == Times(Queries, Stmt("own", t))
             d == <<Stmt("path", t), Stmt("own", t)>>
             e == <<Stmt("own", Public), Stmt("path", t), Stmt("lenient", t),
                    Stmt("lenient", t)>>
  <1>3. a \in Seq(S) /\ b \in Seq(S) /\ d \in Seq(S) /\ Len(a) = 2 /\ Len(d) = 2
    BY <1>1, <1>2 DEF Times
  <1>4. e \in Seq(S) /\ Len(e) = 4
    BY <1>1, <1>2
  <1>5. WriteScript(t) = (a \o b) \o d /\ ListScript(t) = e
    BY DEF WriteScript, ListScript
  <1>9. S \subseteq [kind : Kinds, schema : Schemas]
    BY DEF Kinds
  <1>10. \A x \in S : x.kind \in {"own", "path", "lenient"}
    OBVIOUS
  <1> HIDE DEF a, b, d, e, S
  <1>6. a \o b \in Seq(S) /\ Len(a \o b) = 2 + Len(b) /\ Len(b) \in Nat
    <2>1. a \o b \in Seq(S) /\ Len(a \o b) = Len(a) + Len(b)
      BY <1>3, ConcatProperties, Zenon
    <2>2. Len(b) \in Nat
      BY <1>3
    <2> QED
      BY <1>3, <2>1, <2>2
  <1> DEFINE ab == a \o b
  <1>7. ab \o d \in Seq(S) /\ Len(ab \o d) >= 1
    <2>1. ab \in Seq(S) /\ Len(ab) = 2 + Len(b)
      BY <1>6
    <2> HIDE DEF ab
    <2> QED
      BY <1>3, <1>6, <2>1, ConcatProperties
  <1>8. s \in Seq(S) /\ Len(s) >= 1
    <2>1. CASE s = ListScript(t)
      <3>1. e \in Seq(S) /\ Len(e) >= 1
        BY <1>4
      <3> QED
        BY <1>5, <2>1, <3>1, Zenon
    <2>2. CASE s = WriteScript(t)
      BY <1>5, <1>7, <2>2, Zenon
    <2> QED
      BY <2>1, <2>2
  <1>12. \A i \in 1..Len(s) : s[i] \in S
    BY <1>8, ElementOfSeq
  <1>11. s \in Seq([kind : Kinds, schema : Schemas])
    BY <1>8, <1>9, SeqMonotonic
  <1> QED
    BY <1>8, <1>10, <1>11, <1>12

\* All that the proofs below use of scripts.
LEMMA ScriptShape ==
    ASSUME NEW c \in Calls
    PROVE  /\ Len(Script(c)) \in Nat /\ Len(Script(c)) >= 1
           /\ \A i \in 1..Len(Script(c)) :
                 /\ Script(c)[i].kind \in Kinds
                 /\ Script(c)[i].schema \in Schemas
                 /\ Script(c)[i].kind \in {"tx", "commit"} => i > 3 /\ InTx(c, i)
                 /\ Script(c)[i].kind = "begin" => ~InTx(c, i) /\ InTx(c, i + 1)
                 /\ Script(c)[i].kind = "commit" => ~InTx(c, i + 1)
                 /\ Script(c)[i].kind \notin {"begin", "commit"} =>
                       (InTx(c, i) <=> InTx(c, i + 1))
           /\ ~InTx(c, 1)
  <1> USE ConnectionPoolAssumption
  <1>1. c.tenant \in Tenants /\ c.op \in AllOps
    BY DEF Calls
  <1>2. CASE c.op = "createTenant"
    <2>1. Script(c) = CreateTenantScript(c.tenant)
      BY <1>2 DEF Script
    <2>2. Len(Script(c)) = 9 + Migrations
      BY <1>1, <2>1, CreateTenantShape
    <2>3. \A i \in 1..Len(Script(c)) :
             Script(c)[i] \in [kind : Kinds, schema : Schemas]
      BY <1>1, <2>1, CreateTenantShape, ElementOfSeq
    <2>4. ASSUME NEW i \in 1..Len(Script(c))
          PROVE  /\ Script(c)[i].kind = "begin" <=> i = 2
                 /\ Script(c)[i].kind = "tx" <=> i = 4 \/ i = 7 + Migrations
                 /\ Script(c)[i].kind = "commit" <=> i = 8 + Migrations
      BY <1>1, <2>1, <2>2, CreateTenantShape
    <2> QED
      BY <1>2, <2>2, <2>3, <2>4 DEF InTx
  <1>3. CASE c.op \in {"write", "list"}
    <2>1. Script(c) \in {WriteScript(c.tenant), ListScript(c.tenant)}
      BY <1>3 DEF Script
    <2>2. /\ Script(c) \in Seq([kind : Kinds, schema : Schemas])
          /\ Len(Script(c)) >= 1
          /\ \A i \in 1..Len(Script(c)) :
                Script(c)[i].kind \in {"own", "path", "lenient"}
      BY <1>1, <2>1, PlainShape
    <2>3. /\ Len(Script(c)) \in Nat
          /\ \A i \in 1..Len(Script(c)) :
                Script(c)[i] \in [kind : Kinds, schema : Schemas]
      BY <2>2, ElementOfSeq, LenProperties
    <2> QED
      BY <1>3, <2>2, <2>3 DEF InTx
  <1> QED
    BY <1>1, <1>2, <1>3 DEF AllOps

\* Nothing but the request decides where a statement's script ends.
LEMMA CallsTyped == \A c \in Calls : c.tenant \in Tenants /\ c.op \in AllOps
  BY ConnectionPoolAssumption DEF Calls

--------------------------------------------------------------------------------
\* The steps.

\* The line with one more at its end, and without its head.
LEMMA JoinLine ==
    ASSUME NEW r \in Requests, NEW q \in Seq(Requests),
           \A i \in 1..Len(q) : q[i] # r,
           \A i, j \in 1..Len(q) : q[i] = q[j] => i = j
    PROVE  LET q2 == Append(q, r)
           IN  /\ q2 \in Seq(Requests)
               /\ \A i \in 1..Len(q2) : q2[i] = r \/ \E j \in 1..Len(q) : q2[i] = q[j]
               /\ \A i, j \in 1..Len(q2) : q2[i] = q2[j] => i = j
  <1> DEFINE q2 == Append(q, r)
  <1>1. /\ q2 \in Seq(Requests) /\ Len(q2) = Len(q) + 1 /\ Len(q) \in Nat
        /\ \A i \in 1..Len(q) : q2[i] = q[i]
        /\ q2[Len(q) + 1] = r
    BY AppendProperties, LenProperties
  <1> HIDE DEF q2
  <1>2. \A i \in 1..Len(q2) : i \in 1..Len(q) \/ i = Len(q) + 1
    BY <1>1
  <1>3. \A i, j \in 1..Len(q2) : q2[i] = q2[j] => i = j
    BY <1>1, <1>2
  <1> QED
    BY <1>1, <1>2, <1>3 DEF q2

LEMMA LeaveLine ==
    ASSUME NEW q \in Seq(Requests), q # <<>>,
           \A i, j \in 1..Len(q) : q[i] = q[j] => i = j
    PROVE  /\ Head(q) \in Requests /\ Head(q) = q[1] /\ 1 \in 1..Len(q)
           /\ Tail(q) \in Seq(Requests)
           /\ \A i \in 1..Len(Tail(q)) :
                 Tail(q)[i] # Head(q) /\ \E j \in 1..Len(q) : Tail(q)[i] = q[j]
           /\ \A i, j \in 1..Len(Tail(q)) : Tail(q)[i] = Tail(q)[j] => i = j
  <1>1. /\ Head(q) \in Requests /\ Tail(q) \in Seq(Requests)
        /\ Len(Tail(q)) = Len(q) - 1 /\ Len(q) \in Nat /\ Len(q) >= 1 /\ Head(q) = q[1]
    BY HeadTailProperties, LenProperties
  <1>2. \A i \in 1..Len(Tail(q)) : i + 1 \in 1..Len(q) /\ Tail(q)[i] = q[i + 1]
    BY <1>1, HeadTailProperties
  <1>3. ASSUME NEW i \in 1..Len(Tail(q))
        PROVE  Tail(q)[i] # Head(q) /\ \E j \in 1..Len(q) : Tail(q)[i] = q[j]
    BY <1>1, <1>2
  <1>4. ASSUME NEW i \in 1..Len(Tail(q)), NEW j \in 1..Len(Tail(q)),
               Tail(q)[i] = Tail(q)[j]
        PROVE  i = j
    BY <1>1, <1>2, <1>4
  <1> QED
    BY <1>1, <1>3, <1>4

LEMMA InitIInv == Init => IInv
  <1> SUFFICES ASSUME Init PROVE IInv
    OBVIOUS
  <1> USE ConnectionPoolAssumption
  <1>1. TypeOK
    BY DEF Init, TypeOK, Schemas
  <1>2. Owned
    BY DEF Init, Owned
  <1>3. Waiting(queue, {})
    BY DEF Init, Waiting
  <1>4. \A r \in Requests : AtStatement(r) /\ Has(r)
    BY DEF Init, AtStatement, Has
  <1> QED
    BY <1>1, <1>2, <1>3, <1>4 DEF IInv

\* What every handler's step is: r has its connections settled, stands in no line
\* and goes on to statement i, which is inside createTenant's transaction exactly
\* if r has one.
LEMMA GoTo ==
    ASSUME IInv, NEW r \in Requests, NEW i \in Nat, NEW q,
           UNCHANGED <<owner, path>> \/ (owner' \in [Conns -> Requests \cup {None}]
                                          /\ path' \in [Conns -> Schemas]),
           tx' \in [Requests -> Conns \cup {None}],
           call' \in [Requests -> Calls \cup {NoCall}], call'[r] \in Calls,
           \A s \in Requests \ {r} : tx'[s] = tx[s] /\ call'[s] = call[s],
           \A c \in Conns, s \in Requests \ {r} : owner'[c] = s <=> owner[c] = s,
           \A c \in Conns : owner'[c] = r <=> tx'[r] = c,
           Waiting(q, {r}),
           i \in 1..Len(Script(call'[r])),
           tx'[r] # None <=> InTx(call'[r], i),
           Script(call'[r])[i].kind \in {"tx", "commit"} => tx'[r] = tx[r],
           Start(r, i, q)
    PROVE  IInv'
  <1> USE ConnectionPoolAssumption
  <1> DEFINE k == Script(call'[r])[i].kind
  <1>1. k \in Kinds /\ (k \in {"tx", "commit"} => tx'[r] = tx[r] /\ tx[r] \in Conns)
    BY ScriptShape DEF IInv, TypeOK
  <1>2. /\ step' = [step EXCEPT ![r] = i]
        /\ step' \in [Requests -> Nat \ {0}]
        /\ step'[r] = i /\ \A s \in Requests \ {r} : step'[s] = step[s]
    BY DEF Start, IInv, TypeOK
  <1>3. Current(r)' = Script(call'[r])[i]
    BY <1>2 DEF Current
  <1>4. \A s \in Requests \ {r} : Current(s)' = Current(s)
    BY <1>2 DEF Current
  <1>5. CASE k \in {"tx", "commit"}
    <2>1. /\ on' = [on EXCEPT ![r] = tx[r]] /\ pc' = [pc EXCEPT ![r] = "running"]
          /\ queue' = q
      BY <1>5 DEF Start
    <2>2. /\ pc'[r] = "running" /\ on'[r] = tx'[r] /\ on'[r] \in Conns
          /\ \A s \in Requests \ {r} : pc'[s] = pc[s] /\ on'[s] = on[s]
      BY <1>1, <1>5, <2>1 DEF IInv, TypeOK
    <2>3. TypeOK'
      BY <1>1, <1>2, <1>5, <2>1 DEF IInv, TypeOK, Waiting
    <2>4. Owned'
      BY <2>2 DEF IInv, Owned
    <2>5. Waiting(queue, {})'
      BY <2>1, <2>2 DEF Waiting
    <2>6. AtStatement(r)' /\ Has(r)'
      BY <1>2, <1>3, <1>5, <2>2 DEF AtStatement, Has
    <2>7. \A s \in Requests \ {r} : AtStatement(s)' /\ Has(s)'
      BY <1>2, <1>4, <2>2 DEF IInv, AtStatement, Has
    <2> QED
      BY <2>3, <2>4, <2>5, <2>6, <2>7 DEF IInv
  <1>6. CASE k \notin {"tx", "commit"}
    <2>1. /\ on' = [on EXCEPT ![r] = None] /\ pc' = [pc EXCEPT ![r] = "waiting"]
          /\ queue' = Append(q, r)
      BY <1>6 DEF Start
    <2>2. /\ pc'[r] = "waiting" /\ on'[r] = None
          /\ \A s \in Requests \ {r} : pc'[s] = pc[s] /\ on'[s] = on[s]
      BY <2>1 DEF IInv, TypeOK
    <2>3. /\ queue' \in Seq(Requests)
          /\ \A j \in 1..Len(queue') :
                queue'[j] = r \/ \E m \in 1..Len(q) : queue'[j] = q[m]
          /\ \A j, m \in 1..Len(queue') : queue'[j] = queue'[m] => j = m
      BY <2>1, JoinLine DEF Waiting
    <2>4. TypeOK'
      BY <1>2, <2>1, <2>3 DEF IInv, TypeOK
    <2>5. Owned'
      BY <2>2 DEF IInv, Owned
    <2>6. Waiting(queue, {})'
      <3>1. \A m \in 1..Len(q) : q[m] \in Requests \ {r} /\ pc[q[m]] = "waiting"
        BY ElementOfSeq DEF Waiting
      <3>2. \A j \in 1..Len(queue') : pc'[queue'[j]] = "waiting"
        BY <2>2, <2>3, <3>1
      <3> QED
        BY <2>3, <3>2 DEF Waiting
    <2>7. AtStatement(r)' /\ Has(r)'
      BY <1>2, <1>3, <1>6, <2>2 DEF AtStatement, Has
    <2>8. \A s \in Requests \ {r} : AtStatement(s)' /\ Has(s)'
      BY <1>2, <1>4, <2>2 DEF IInv, AtStatement, Has
    <2> QED
      BY <2>4, <2>5, <2>6, <2>7, <2>8 DEF IInv
  <1> QED
    BY <1>5, <1>6

\* The other end of a step: r has no statement left, or its handler failed.
LEMMA GiveUp ==
    ASSUME IInv, NEW r \in Requests, NEW q,
           UNCHANGED call,
           owner' \in [Conns -> Requests \cup {None}],
           path' \in [Conns -> Schemas],
           tx' \in [Requests -> Conns \cup {None}],
           \A s \in Requests \ {r} : tx'[s] = tx[s],
           \A c \in Conns, s \in Requests \ {r} : owner'[c] = s <=> owner[c] = s,
           \A c \in Conns : owner'[c] = r <=> tx'[r] = c,
           Waiting(q, {r}),
           Stop(r, q)
    PROVE  IInv'
  <1> USE ConnectionPoolAssumption
  <1>1. /\ pc' = [pc EXCEPT ![r] = IF tx'[r] # None THEN "rollback" ELSE "done"]
        /\ on' = [on EXCEPT ![r] = None] /\ queue' = q /\ UNCHANGED step
    BY DEF Stop
  <1>2. /\ pc'[r] = IF tx'[r] # None THEN "rollback" ELSE "done"
        /\ on'[r] = None
        /\ \A s \in Requests \ {r} : pc'[s] = pc[s] /\ on'[s] = on[s]
    BY <1>1 DEF IInv, TypeOK
  <1>3. TypeOK'
    BY <1>1 DEF IInv, TypeOK, Waiting
  <1>4. Owned'
    BY <1>2 DEF IInv, Owned
  <1>5. Waiting(queue, {})'
    <2>1. \A m \in 1..Len(q) : q[m] \in Requests \ {r} /\ pc[q[m]] = "waiting"
      BY ElementOfSeq DEF Waiting
    <2> QED
      BY <1>1, <1>2, <2>1 DEF Waiting
  <1>6. AtStatement(r)' /\ Has(r)'
    BY <1>2 DEF AtStatement, Has
  <1>7. \A s \in Requests \ {r} : AtStatement(s)' /\ Has(s)'
    BY <1>1, <1>2 DEF IInv, AtStatement, Has, Current
  <1> QED
    BY <1>3, <1>4, <1>5, <1>6, <1>7 DEF IInv

\* After HandBack the connections of r are those of its transaction, which a BEGIN
\* has opened and a COMMIT closed; nobody else's have changed.
LEMMA HandBackSettles ==
    ASSUME IInv, NEW r \in Requests, pc[r] = "running", NEW kind \in Kinds,
           kind = Current(r).kind \/ (kind = "own" /\ Current(r).kind = "begin"),
           HandBack(r, kind)
    PROVE  /\ owner' \in [Conns -> Requests \cup {None}]
           /\ tx' \in [Requests -> Conns \cup {None}]
           /\ \A s \in Requests \ {r} : tx'[s] = tx[s]
           /\ \A c \in Conns, s \in Requests \ {r} : owner'[c] = s <=> owner[c] = s
           /\ \A c \in Conns : owner'[c] = r <=> tx'[r] = c
           /\ kind = "begin" => tx'[r] # None
           /\ kind = "commit" => tx'[r] = None
           /\ kind \notin {"begin", "commit"} => tx'[r] = tx[r]
  <1> USE ConnectionPoolAssumption
  <1>1. /\ TypeOK /\ Owned /\ AtStatement(r) /\ Has(r)
        /\ on[r] \in Conns /\ owner[on[r]] = r /\ None \notin Requests \cup Conns
    BY DEF IInv, Owned, Has
  <1>2. call[r] \in Calls /\ step[r] \in 1..Len(Script(call[r]))
    BY <1>1 DEF AtStatement
  <1>3. /\ Current(r).kind \in {"tx", "commit"} => on[r] = tx[r]
        /\ Current(r).kind \notin {"tx", "commit"} => on[r] # tx[r]
        /\ Current(r).kind = "begin" => tx[r] = None
    BY <1>1, <1>2, ScriptShape DEF AtStatement, Has, Current
  <1>4. CASE kind = "begin"
    <2>1. tx' = [tx EXCEPT ![r] = on[r]] /\ UNCHANGED owner
      BY <1>4 DEF HandBack
    <2>2. tx[r] = None
      BY <1>3, <1>4
    <2> QED
      BY <1>1, <1>4, <2>1, <2>2 DEF TypeOK, Owned
  <1>5. CASE kind = "tx"
    <2>1. UNCHANGED <<tx, owner>>
      BY <1>5 DEF HandBack
    <2>2. on[r] = tx[r]
      BY <1>3, <1>5
    <2> QED
      BY <1>1, <1>5, <2>1, <2>2 DEF TypeOK, Owned
  <1>6. CASE kind = "commit"
    <2>1. owner' = [owner EXCEPT ![on[r]] = None] /\ tx' = [tx EXCEPT ![r] = None]
      BY <1>6 DEF HandBack
    <2>2. on[r] = tx[r]
      BY <1>3, <1>6
    <2>3. tx'[r] = None /\ \A s \in Requests \ {r} : tx'[s] = tx[s]
      BY <1>1, <2>1 DEF TypeOK
    <2>4. /\ owner'[on[r]] = None
          /\ \A c \in Conns \ {on[r]} : owner'[c] = owner[c]
      BY <1>1, <2>1 DEF TypeOK
    <2>5. \A c \in Conns \ {on[r]} : owner[c] # r
      BY <1>1, <2>2 DEF Owned
    <2> QED
      BY <1>1, <1>6, <2>1, <2>3, <2>4, <2>5 DEF TypeOK
  <1>7. CASE kind \notin {"begin", "tx", "commit"}
    <2>1. owner' = [owner EXCEPT ![on[r]] = None] /\ UNCHANGED tx
      BY <1>7 DEF HandBack
    <2>2. on[r] # tx[r]
      BY <1>3, <1>7
    <2>3. /\ owner'[on[r]] = None
          /\ \A c \in Conns \ {on[r]} : owner'[c] = owner[c]
      BY <1>1, <2>1 DEF TypeOK
    <2>4. \A c \in Conns \ {on[r]} : owner[c] = r <=> tx[r] = c
      BY <1>1 DEF Owned
    <2> QED
      BY <1>1, <1>7, <2>1, <2>2, <2>3, <2>4 DEF TypeOK
  <1> QED
    BY <1>4, <1>5, <1>6, <1>7

\* A request that runs is in no line.
LEMMA NotInLine ==
    ASSUME IInv, NEW r \in Requests, pc[r] # "waiting"
    PROVE  Waiting(queue, {r})
  BY DEF IInv, Waiting

LEMMA CompleteInv ==
    ASSUME IInv, NEW r \in Requests, Complete(r)
    PROVE  IInv'
  <1> USE ConnectionPoolAssumption
  <1> DEFINE kind == Current(r).kind
  <1>1. /\ pc[r] = "running" /\ UNCHANGED call /\ HandBack(r, kind) /\ GoOn(r, queue)
        /\ TypeOK /\ AtStatement(r)
    BY DEF Complete, IInv
  <1>2. /\ call[r] \in Calls /\ step[r] \in 1..Len(Script(call[r]))
        /\ Len(Script(call[r])) \in Nat
        /\ kind \in Kinds /\ Current(r).schema \in Schemas
        /\ kind = "begin" => ~InTx(call[r], step[r]) /\ InTx(call[r], step[r] + 1)
        /\ kind = "commit" => ~InTx(call[r], step[r] + 1)
        /\ kind \notin {"begin", "commit"} =>
              (InTx(call[r], step[r]) <=> InTx(call[r], step[r] + 1))
    BY <1>1, ScriptShape DEF AtStatement, Current
  <1>3. path' \in [Conns -> Schemas]
    BY <1>1, <1>2 DEF Complete, TypeOK
  <1>4. /\ owner' \in [Conns -> Requests \cup {None}]
        /\ tx' \in [Requests -> Conns \cup {None}]
        /\ \A s \in Requests \ {r} : tx'[s] = tx[s]
        /\ \A c \in Conns, s \in Requests \ {r} : owner'[c] = s <=> owner[c] = s
        /\ \A c \in Conns : owner'[c] = r <=> tx'[r] = c
        /\ kind = "begin" => tx'[r] # None
        /\ kind = "commit" => tx'[r] = None
        /\ kind \notin {"begin", "commit"} => tx'[r] = tx[r]
    BY <1>1, <1>2, HandBackSettles
  <1>5. Waiting(queue, {r})
    BY <1>1, NotInLine
  <1>6. CASE step[r] < Len(Script(call[r]))
    <2>1. Start(r, step[r] + 1, queue)
      BY <1>1, <1>6 DEF GoOn
    <2>2. step[r] + 1 \in 1..Len(Script(call[r])) /\ step[r] + 1 \in Nat
      BY <1>2, <1>6
    <2>3. tx'[r] # None <=> InTx(call[r], step[r] + 1)
      BY <1>1, <1>2, <1>4 DEF AtStatement
    <2>4. Script(call[r])[step[r] + 1].kind \in {"tx", "commit"} => tx'[r] = tx[r]
      <3>1. SUFFICES ASSUME Script(call[r])[step[r] + 1].kind \in {"tx", "commit"}
                     PROVE  kind \notin {"begin", "commit"}
        BY <1>4
      <3>2. step[r] + 1 > 3 /\ InTx(call[r], step[r] + 1)
        BY <1>2, <2>2, <3>1, ScriptShape
      <3>3. InTx(call[r], step[r])
        BY <1>2, <3>2 DEF InTx
      <3> QED
        BY <1>2, <3>2, <3>3
    <2>5. call' \in [Requests -> Calls \cup {NoCall}] /\ call'[r] \in Calls
      BY <1>1, <1>2 DEF TypeOK
    <2> QED
      BY <1>1, <1>3, <1>4, <1>5, <2>1, <2>2, <2>3, <2>4, <2>5, GoTo
  <1>7. CASE ~(step[r] < Len(Script(call[r])))
    <2>1. Stop(r, queue)
      BY <1>1, <1>7 DEF GoOn
    <2> QED
      BY <1>1, <1>3, <1>4, <1>5, <2>1, GiveUp
  <1> QED
    BY <1>6, <1>7

\* A statement in a transaction is no repository's that swallows its error.
LEMMA LenientGoesOn ==
    ASSUME IInv, NEW r \in Requests, NEW q, pc[r] \in {"waiting", "running"},
           Current(r).kind = "lenient",
           UNCHANGED call, UNCHANGED path,
           owner' \in [Conns -> Requests \cup {None}], UNCHANGED tx,
           \A c \in Conns, s \in Requests \ {r} : owner'[c] = s <=> owner[c] = s,
           \A c \in Conns : owner'[c] = r <=> tx[r] = c,
           Waiting(q, {r}), GoOn(r, q)
    PROVE  IInv'
  <1> USE ConnectionPoolAssumption
  <1>1. /\ TypeOK /\ AtStatement(r)
        /\ call[r] \in Calls /\ step[r] \in 1..Len(Script(call[r]))
        /\ Len(Script(call[r])) \in Nat
        /\ InTx(call[r], step[r]) <=> InTx(call[r], step[r] + 1)
    BY ScriptShape DEF AtStatement, Current, IInv
  <1>2. /\ tx' \in [Requests -> Conns \cup {None}] /\ path' \in [Conns -> Schemas]
        /\ call' \in [Requests -> Calls \cup {NoCall}] /\ call'[r] \in Calls
    BY <1>1 DEF TypeOK
  <1>3. CASE step[r] < Len(Script(call[r]))
    <2>1. Start(r, step[r] + 1, q)
      BY <1>3 DEF GoOn
    <2>2. step[r] + 1 \in 1..Len(Script(call[r])) /\ step[r] + 1 \in Nat
      BY <1>1, <1>3
    <2>3. tx'[r] # None <=> InTx(call[r], step[r] + 1)
      BY <1>1 DEF AtStatement
    <2> QED
      BY <1>2, <2>1, <2>2, <2>3, GoTo
  <1>4. CASE ~(step[r] < Len(Script(call[r])))
    <2>1. Stop(r, q)
      BY <1>4 DEF GoOn
    <2> QED
      BY <1>2, <2>1, GiveUp
  <1> QED
    BY <1>3, <1>4

LEMMA StatementFailsInv ==
    ASSUME IInv, NEW r \in Requests, StatementFails(r)
    PROVE  IInv'
  <1> USE ConnectionPoolAssumption
  <1> DEFINE kind == IF Current(r).kind = "begin" THEN "own" ELSE Current(r).kind
  <1>1. /\ pc[r] = "running" /\ UNCHANGED <<path, call>> /\ HandBack(r, kind)
        /\ TypeOK /\ AtStatement(r)
        /\ IF Current(r).kind = "lenient" THEN GoOn(r, queue) ELSE Stop(r, queue)
    BY DEF StatementFails, IInv
  <1>2. /\ kind \in Kinds
        /\ kind = Current(r).kind \/ (kind = "own" /\ Current(r).kind = "begin")
    <2>1. Current(r).kind \in Kinds
      BY <1>1, ScriptShape DEF AtStatement, Current
    <2> QED
      BY <2>1 DEF Kinds
  <1> HIDE DEF kind
  <1>3. /\ owner' \in [Conns -> Requests \cup {None}]
        /\ tx' \in [Requests -> Conns \cup {None}]
        /\ \A s \in Requests \ {r} : tx'[s] = tx[s]
        /\ \A c \in Conns, s \in Requests \ {r} : owner'[c] = s <=> owner[c] = s
        /\ \A c \in Conns : owner'[c] = r <=> tx'[r] = c
    BY <1>1, <1>2, HandBackSettles
  <1>4. Waiting(queue, {r})
    BY <1>1, NotInLine
  <1>5. path' \in [Conns -> Schemas]
    BY <1>1 DEF TypeOK
  <1>6. CASE Current(r).kind = "lenient"
    <2>1. UNCHANGED tx
      BY <1>1, <1>6 DEF HandBack, kind
    <2> QED
      BY <1>1, <1>3, <1>4, <1>6, <2>1, LenientGoesOn
  <1>7. CASE Current(r).kind # "lenient"
    BY <1>1, <1>3, <1>4, <1>5, <1>7, GiveUp
  <1> QED
    BY <1>6, <1>7

LEMMA AcquireTimeoutInv ==
    ASSUME IInv, AcquireTimeout
    PROVE  IInv'
  <1> USE ConnectionPoolAssumption
  <1>1. PICK r : r = Head(queue)
    OBVIOUS
  <1>2. /\ queue # <<>> /\ UNCHANGED <<owner, path, call, tx>>
        /\ IF Current(r).kind = "lenient" THEN GoOn(r, Tail(queue))
           ELSE Stop(r, Tail(queue))
    BY <1>1 DEF AcquireTimeout
  <1>3. r \in Requests /\ pc[r] = "waiting" /\ Waiting(Tail(queue), {r})
    BY <1>1, <1>2, LeaveLine DEF IInv, Waiting
  <1>4. /\ TypeOK /\ on[r] = None
        /\ \A c \in Conns : owner[c] = r <=> tx[r] = c
    BY <1>3 DEF IInv, Has, Owned
  <1>5. /\ owner' \in [Conns -> Requests \cup {None}] /\ path' \in [Conns -> Schemas]
        /\ tx' \in [Requests -> Conns \cup {None}]
    BY <1>2, <1>4 DEF TypeOK
  <1>6. CASE Current(r).kind = "lenient"
    BY <1>2, <1>3, <1>4, <1>5, <1>6, LenientGoesOn
  <1>7. CASE Current(r).kind # "lenient"
    BY <1>2, <1>3, <1>4, <1>5, <1>7, GiveUp
  <1> QED
    BY <1>6, <1>7

LEMMA ReceiveInv ==
    ASSUME IInv, NEW r \in Requests, Receive(r)
    PROVE  IInv'
  <1> USE ConnectionPoolAssumption
  <1>1. /\ pc[r] = "idle" /\ Start(r, 1, queue) /\ UNCHANGED <<owner, path, tx>>
        /\ TypeOK /\ Has(r)
    BY DEF Receive, IInv
  <1>2. PICK c \in Calls : call' = [call EXCEPT ![r] = c]
    BY DEF Receive
  <1>3. /\ call' \in [Requests -> Calls \cup {NoCall}] /\ call'[r] = c
        /\ \A s \in Requests \ {r} : call'[s] = call[s]
    BY <1>1, <1>2 DEF TypeOK
  <1>4. /\ 1 \in 1..Len(Script(c)) /\ ~InTx(c, 1)
        /\ Script(c)[1].kind \notin {"tx", "commit"}
    <2>1. 1 \in 1..Len(Script(c)) /\ ~InTx(c, 1)
      BY ScriptShape
    <2> QED
      BY <2>1, ScriptShape
  <1>5. /\ tx[r] = None /\ on[r] = None
        /\ \A x \in Conns : owner[x] = r <=> tx[r] = x
    BY <1>1 DEF Has, IInv, Owned
  <1>6. tx' \in [Requests -> Conns \cup {None}]
    BY <1>1 DEF TypeOK
  <1>7. Waiting(queue, {r})
    BY <1>1, NotInLine
  <1> QED
    BY <1>1, <1>3, <1>4, <1>5, <1>6, <1>7, GoTo

LEMMA GrantInv ==
    ASSUME IInv, NEW c \in Conns, Grant(c)
    PROVE  IInv'
  <1> USE ConnectionPoolAssumption
  <1>1. PICK r : r = Head(queue)
    OBVIOUS
  <1>2. /\ queue # <<>> /\ owner[c] = None
        /\ owner' = [owner EXCEPT ![c] = r]
        /\ on' = [on EXCEPT ![r] = c]
        /\ pc' = [pc EXCEPT ![r] = "running"]
        /\ queue' = Tail(queue)
        /\ UNCHANGED <<path, call, step, tx>>
    BY <1>1 DEF Grant, Free
  <1>3. /\ r \in Requests /\ pc[r] = "waiting" /\ Waiting(Tail(queue), {r})
    BY <1>1, <1>2, LeaveLine DEF IInv, Waiting
  <1>4. TypeOK /\ Owned /\ AtStatement(r) /\ Has(r)
    BY <1>3 DEF IInv
  <1>5. /\ pc'[r] = "running" /\ on'[r] = c
        /\ \A s \in Requests \ {r} : pc'[s] = pc[s] /\ on'[s] = on[s]
        /\ owner'[c] = r /\ \A d \in Conns \ {c} : owner'[d] = owner[d]
    BY <1>2, <1>3, <1>4 DEF TypeOK
  <1>6. TypeOK'
    BY <1>2, <1>3, <1>4 DEF TypeOK, Waiting
  <1>7. Owned'
    <2>1. on[r] = None /\ \A s \in Requests : tx[s] # c /\ on[s] # c
      BY <1>2, <1>3, <1>4 DEF Has, Owned
    <2> QED
      BY <1>2, <1>3, <1>4, <1>5, <2>1 DEF Owned
  <1>8. Waiting(queue, {})'
    <2>1. \A m \in 1..Len(Tail(queue)) :
             Tail(queue)[m] \in Requests \ {r} /\ pc[Tail(queue)[m]] = "waiting"
      BY <1>3, ElementOfSeq DEF Waiting
    <2> QED
      BY <1>2, <1>3, <1>5, <2>1 DEF Waiting
  <1>9. AtStatement(r)' /\ Has(r)'
    <2>1. Current(r)' = Current(r) /\ Current(r).kind \notin {"tx", "commit"}
      BY <1>2, <1>3, <1>4 DEF Current, Has
    <2>2. tx[r] # c
      BY <1>2, <1>3, <1>4 DEF Owned
    <2> QED
      BY <1>2, <1>3, <1>4, <1>5, <2>1, <2>2 DEF AtStatement, Has
  <1>10. \A s \in Requests \ {r} : AtStatement(s)' /\ Has(s)'
    BY <1>2, <1>5 DEF IInv, AtStatement, Has, Current
  <1> QED
    BY <1>6, <1>7, <1>8, <1>9, <1>10 DEF IInv

LEMMA RollbackInv ==
    ASSUME IInv, NEW r \in Requests, Rollback(r)
    PROVE  IInv'
  <1> USE ConnectionPoolAssumption
  <1>1. /\ pc[r] = "rollback"
        /\ owner' = [owner EXCEPT ![tx[r]] = None]
        /\ tx' = [tx EXCEPT ![r] = None]
        /\ pc' = [pc EXCEPT ![r] = "done"]
        /\ UNCHANGED <<queue, path, call, step, on>>
        /\ TypeOK /\ Owned /\ Has(r)
    BY DEF Rollback, IInv
  <1>2. tx[r] \in Conns /\ on[r] = None
    BY <1>1 DEF TypeOK, Has
  <1>3. /\ pc'[r] = "done" /\ tx'[r] = None
        /\ \A s \in Requests \ {r} : pc'[s] = pc[s] /\ tx'[s] = tx[s]
        /\ owner'[tx[r]] = None
        /\ \A c \in Conns \ {tx[r]} : owner'[c] = owner[c]
    BY <1>1, <1>2 DEF TypeOK
  <1>4. TypeOK'
    BY <1>1 DEF TypeOK
  <1>5. Owned'
    <2>1. owner[tx[r]] = r
      BY <1>1, <1>2 DEF Owned
    <2> QED
      BY <1>1, <1>2, <1>3, <2>1 DEF Owned
  <1>6. Waiting(queue, {})'
    <2>1. \A m \in 1..Len(queue) : queue[m] \in Requests
      BY ElementOfSeq DEF IInv, Waiting
    <2> QED
      BY <1>1, <1>3, <2>1 DEF IInv, Waiting
  <1>7. \A s \in Requests : AtStatement(s)' /\ Has(s)'
    BY <1>1, <1>2, <1>3 DEF IInv, AtStatement, Has, Current
  <1> QED
    BY <1>4, <1>5, <1>6, <1>7 DEF IInv

LEMMA NextInv == IInv /\ [Next]_vars => IInv'
  <1> SUFFICES ASSUME IInv, [Next]_vars PROVE IInv'
    OBVIOUS
  <1>1. ASSUME NEW r \in Requests, Receive(r) PROVE IInv'
    BY <1>1, ReceiveInv
  <1>2. ASSUME NEW r \in Requests, Handle(r) PROVE IInv'
    BY <1>2, CompleteInv, StatementFailsInv, RollbackInv DEF Handle
  <1>3. CASE Serve
    BY <1>3, AcquireTimeoutInv, GrantInv DEF Serve
  <1>4. ASSUME NEW c \in Conns, CloseIdle(c) PROVE IInv'
    BY <1>4 DEF CloseIdle, IInv, TypeOK, Schemas, Owned, Waiting, AtStatement, Has, Current
  <1>5. CASE UNCHANGED vars
    <2>1. TypeOK' /\ Owned' /\ Waiting(queue, {})'
      BY <1>5 DEF vars, IInv, TypeOK, Owned, Waiting
    <2>2. \A r \in Requests : AtStatement(r)' /\ Has(r)'
      BY <1>5 DEF vars, IInv, AtStatement, Has, Current
    <2> QED
      BY <2>1, <2>2 DEF IInv
  <1> QED
    BY <1>1, <1>2, <1>3, <1>4, <1>5 DEF Next, Quiet

\* The strengthening holds in every reachable state.
THEOREM Inductive == Spec => []IInv
  BY InitIInv, NextInv, PTL DEF Spec

\* The variables of the pool keep their types, whatever fails and whoever waits.
THEOREM TypeCorrect == Spec => []TypeOK
  BY Inductive, PTL DEF IInv

\* No connection is lost or given to two requests: one is out exactly while the
\* transaction or the running statement of its owner uses it.
THEOREM AccountedHolds == Spec => []Accounted
  <1>1. IInv => Accounted
    BY DEF IInv, Owned, Has, Accounted
  <1> QED
    BY <1>1, Inductive, PTL

\* When nobody who has a connection can go on, each connection is held by the
\* open transaction of one creation, and by none of any other request.
LEMMA StuckByCreations ==
    ASSUME IInv, Stuck
    PROVE  CreationsBlock
  <1> USE ConnectionPoolAssumption
  <1> DEFINE S == {r \in Requests : tx[r] # None}
             f == [c \in Conns |-> owner[c]]
  <1>1. ASSUME NEW c \in Conns
        PROVE  owner[c] \in Requests /\ tx[owner[c]] = c
    <2>1. owner[c] \in Requests /\ pc[owner[c]] = "waiting"
      BY DEF Stuck, Free, IInv, TypeOK
    <2>2. on[owner[c]] = None
      BY <2>1 DEF IInv, Has
    <2> QED
      BY <2>1, <2>2 DEF IInv, Owned
  <1>2. f \in [Conns -> S]
    BY <1>1
  <1>3. \A r \in S : \E c \in Conns : f[c] = r
    <2> SUFFICES ASSUME NEW r \in S PROVE \E c \in Conns : f[c] = r
      OBVIOUS
    <2>1. tx[r] \in Conns
      BY DEF IInv, TypeOK
    <2>2. owner[tx[r]] = r
      BY <2>1 DEF IInv, Owned
    <2> QED
      BY <2>1, <2>2
  <1>4. \A c, d \in Conns : f[c] = f[d] => c = d
    BY <1>1
  <1> HIDE DEF f, S
  <1>5. f \in Surjection(Conns, S)
    BY <1>2, <1>3 DEF Surjection
  <1>6. f \in Injection(Conns, S)
    BY <1>2, <1>4 DEF Injection, IsInjective
  <1>7. Cardinality(S) = Cardinality(Conns)
    BY <1>5, <1>6, FS_Surjection
  <1>8. Cardinality(Conns) \in Nat
    BY FS_CardinalityType
  <1> QED
    BY <1>7, <1>8 DEF CreationsBlock, S

\* Only as many tenant creations at once as there are connections can block the
\* pool.
THEOREM CreationsBlockHolds == Spec => []CreationsBlock
  <1>1. IInv => CreationsBlock
    BY StuckByCreations DEF CreationsBlock
  <1> QED
    BY <1>1, Inductive, PTL
================================================================================
