--------------------------- MODULE UnitBookingProofs ---------------------------
(***************************************************************************)
(* Proofs about UnitBooking, for any number of requests, users and units.  *)
(*                                                                         *)
(* TypeInv is TypeOK with what the handlers know of their own request      *)
(* (CallOK): an audit entry is typed only because a handler that answers   *)
(* "ok" has a user and a unit.  BookInv adds what keeps two bookings       *)
(* apart.  Each invariant is kept by every step; the theorems follow.      *)
(***************************************************************************)
EXTENDS UnitBooking, TLAPS

--------------------------------------------------------------------------------
\* Types.

\* What a handler knows of its request, by how far it got.
CallOK(r) ==
    /\ pc[r] = "idle" => call[r] = NoCall
    /\ pc[r] # "idle" => Op(r) \in AllOps /\ call[r].user \in Users
    /\ Op(r) \in AllOps \ {"create"} => Unit(r) \in Units
    /\ Op(r) = "create" => pc[r] \notin {"readOld", "read"}
    /\ Op(r) = "create" /\ result[r] = "ok" => Unit(r) \in Units
    /\ pc[r] \in {"idle", "readOld", "read", "write"} =>
          result[r] = "none" /\ before[r] = None

TypeInv == TypeOK /\ \A r \in Requests : CallOK(r)

\* A call that may be received has the type of a call, a user, and, unless it is
\* a create, a unit.
LEMMA CallTyped ==
    ASSUME NEW c \in Calls
    PROVE  /\ c \in [op : AllOps \cup {"none"}, user : Users \cup {None},
                     unit : Units \cup {None}, patch : Patch]
           /\ c.op \in AllOps
           /\ c.user \in Users
           /\ c.op # "create" => c.unit \in Units
  BY UnitBookingAssumption DEF Calls, Patch, NoPatch, AllOps

LEMMA RowsTyped == NoRow \in Row /\ \A n \in Numbers : NewRow(n) \in Row
  BY DEF NoRow, NewRow, Row, Statuses

\* A PATCH leaves the type, and the booking columns, of a row alone.
LEMMA PatchedTyped ==
    ASSUME NEW row \in Row, NEW patch \in Patch
    PROVE  /\ Patched(row, patch) \in Row
           /\ Patched(row, patch).status = row.status
           /\ Patched(row, patch).booked_by = row.booked_by
  BY UnitBookingAssumption DEF Patched, Row, Patch

LEMMA TypeInit == Init => TypeInv
  <1> SUFFICES ASSUME Init PROVE TypeInv
    OBVIOUS
  <1>1. NoCall \in [op : AllOps \cup {"none"}, user : Users \cup {None},
                    unit : Units \cup {None}, patch : Patch]
    BY DEF NoCall, NoPatch, Patch, AllOps
  <1>2. TypeOK
    BY <1>1, RowsTyped DEF Init, TypeOK, Results
  <1>3. \A r \in Requests : CallOK(r)
    BY DEF Init, CallOK, NoCall, AllOps, Op, Unit
  <1> QED BY <1>2, <1>3 DEF TypeInv

\* The write of a request, whatever the row it leaves.
LEMMA CommitTyped ==
    ASSUME TypeInv, NEW r \in Requests, NEW u \in Units, NEW row \in Row,
           pc[r] = "write", Commit(r, u, row),
           \/ Op(r) # "create" /\ UNCHANGED call
           \/ Op(r) = "create" /\ call' = [call EXCEPT ![r].unit = u]
    PROVE  TypeInv'
  <1>1. Op(r) \in AllOps /\ (Op(r) # "create" => Unit(r) \in Units)
    BY DEF TypeInv, CallOK
  <1>2. TypeOK'
    <2> DEFINE AnyCall == [op : AllOps \cup {"none"}, user : Users \cup {None},
                           unit : Units \cup {None}, patch : Patch]
    <2>1. call' \in [Requests -> AnyCall]
      <3>1. call \in [Requests -> AnyCall]
        BY DEF TypeInv, TypeOK
      <3>2. [call[r] EXCEPT !.unit = u] \in AnyCall
        <4>1. call[r] \in AnyCall
          BY <3>1
        <4> QED BY <4>1
      <3>3. CASE UNCHANGED call
        BY <3>1, <3>3
      <3>4. CASE call' = [call EXCEPT ![r].unit = u]
        <4> HIDE DEF AnyCall
        <4> QED BY <3>1, <3>2, <3>4
      <3> QED BY <3>3, <3>4
    <2>2. units' \in [Units -> Row] /\ before' \in [Requests -> Row \cup {None}]
          /\ new' \in [Requests -> Row \cup {None}]
      <3>1. /\ units \in [Units -> Row]
            /\ before \in [Requests -> Row \cup {None}]
            /\ new \in [Requests -> Row \cup {None}]
        BY DEF TypeInv, TypeOK
      <3>2. /\ units' = [units EXCEPT ![u] = row]
            /\ before' = [before EXCEPT ![r] = units[u]]
            /\ new' = [new EXCEPT ![r] = row] \/ new' = new
        BY DEF Commit
      <3>3. units[u] \in Row
        BY <3>1
      <3> QED BY <3>1, <3>2, <3>3
    <2>3. /\ pc' \in [Requests -> {"idle", "done", "lost"} \cup InFlight]
          /\ result' \in [Requests -> Results \cup {"none"}]
      BY DEF TypeInv, TypeOK, Commit, Decide, InFlight, Results
    <2>4. UNCHANGED <<auditLogs, old, scheduled>>
      BY DEF Commit
    <2>5. struck' \subseteq Requests
      BY DEF TypeInv, TypeOK, Commit, Struck
    <2> QED BY <2>1, <2>2, <2>3, <2>4, <2>5 DEF TypeInv, TypeOK, Entries
  <1>3. ASSUME NEW s \in Requests PROVE CallOK(s)'
    <2>1. CASE s = r
      <3>1. pc'[r] = "answer" /\ result'[r] \in {"ok", "serverError"}
        BY DEF TypeInv, TypeOK, Commit, Decide
      <3>2. /\ Op(r)' = Op(r) /\ call'[r].user = call[r].user
            /\ Unit(r)' = IF Op(r) = "create" THEN u ELSE Unit(r)
        BY DEF TypeInv, TypeOK, Op, Unit
      <3>3. call[r].user \in Users
        BY DEF TypeInv, CallOK
      <3> QED BY <1>1, <2>1, <3>1, <3>2, <3>3 DEF CallOK
    <2>2. CASE s # r
      BY <2>2 DEF TypeInv, TypeOK, CallOK, Commit, Decide, Op, Unit
    <2> QED BY <2>1, <2>2
  <1> QED BY <1>2, <1>3 DEF TypeInv

LEMMA TypeStep == TypeInv /\ [Next]_vars => TypeInv'
  <1> SUFFICES ASSUME TypeInv, [Next]_vars PROVE TypeInv'
    OBVIOUS
  <1> USE DEF TypeInv, TypeOK, CallOK, InFlight, Results
  <1>1. ASSUME NEW r \in Requests, Receive(r) PROVE TypeInv'
    <2>1. PICK c \in Calls : call' = [call EXCEPT ![r] = c]
                             /\ pc' = [pc EXCEPT ![r] = FirstStep(c.op)]
      BY <1>1 DEF Receive
    <2>2. FirstStep(c.op) \in {"write", "read", "readOld"}
          /\ (c.op = "create" => FirstStep(c.op) = "write")
      BY DEF FirstStep
    <2> QED BY <1>1, <2>1, <2>2, CallTyped DEF Receive, Op, Unit
  <1>2. ASSUME NEW r \in Requests, ReadOld(r) PROVE TypeInv'
    BY <1>2 DEF ReadOld, Op, Unit
  <1>3. ASSUME NEW r \in Requests, ReadUnit(r) PROVE TypeInv'
    BY <1>3 DEF ReadUnit, Op, Unit, locals
  <1>4. ASSUME NEW r \in Requests,
               RefuseTaken(r) \/ NotFound(r) \/ InsertRejected(r)
               \/ BookMisses(r) \/ SellMisses(r) \/ WriteFails(r)
        PROVE TypeInv'
    <2>1. PICK res \in {"refused", "notFound", "serverError", "ok"} :
             /\ Decide(r, res)
             /\ res = "ok" => Op(r) = "delete"
      BY <1>4 DEF RefuseTaken, NotFound, InsertRejected, BookMisses, SellMisses,
                  WriteFails
    <2>2. UNCHANGED <<units, auditLogs, scheduled, call, old, new, before>>
      BY <1>4 DEF RefuseTaken, NotFound, InsertRejected, BookMisses, SellMisses,
                  WriteFails, locals
    <2>3. pc[r] # "idle" /\ struck' \subseteq Requests
      BY <1>4 DEF RefuseTaken, NotFound, InsertRejected, BookMisses, SellMisses,
                  WriteFails, locals, Struck
    <2> QED BY <2>1, <2>2, <2>3 DEF Decide, Op, Unit
  <1>5. ASSUME NEW r \in Requests, AlreadySold(r) PROVE TypeInv'
    BY <1>5 DEF AlreadySold, Decide, Op, Unit, AllOps
  <1>6. ASSUME NEW r \in Requests, InsertUnit(r) PROVE TypeInv'
    <2>1. PICK u \in Units : /\ Commit(r, u, NewRow(call[r].patch.unit_number))
                             /\ call' = [call EXCEPT ![r].unit = u]
      BY <1>6 DEF InsertUnit
    <2>2. NewRow(call[r].patch.unit_number) \in Row
      BY DEF NewRow, Row, Patch, Statuses
    <2> QED BY <1>6, <2>1, <2>2, CommitTyped DEF InsertUnit
  <1>7. ASSUME NEW r \in Requests, UpdateUnit(r) PROVE TypeInv'
    <2>1. Patched(units[Unit(r)], call[r].patch) \in Row /\ Unit(r) \in Units
      BY <1>7, PatchedTyped DEF UpdateUnit, AllOps, Op, Unit
    <2> QED BY <1>7, <2>1, CommitTyped DEF UpdateUnit
  <1>8. ASSUME NEW r \in Requests, BookUnit(r) PROVE TypeInv'
    <2>1. Unit(r) \in Units
      BY <1>8 DEF BookUnit, AllOps
    <2>2. [units[Unit(r)] EXCEPT !.status = "Booked",
                                 !.booked_by = call[r].user] \in Row
      BY <1>8, <2>1 DEF Row, Statuses, BookUnit
    <2> QED BY <1>8, <2>1, <2>2, CommitTyped DEF BookUnit
  <1>9. ASSUME NEW r \in Requests, MarkAsSold(r) PROVE TypeInv'
    <2>1. Unit(r) \in Units
      BY <1>9 DEF MarkAsSold, AllOps
    <2>2. [units[Unit(r)] EXCEPT !.status = "Sold"] \in Row
      BY <2>1 DEF Row, Statuses
    <2> QED BY <1>9, <2>1, <2>2, CommitTyped DEF MarkAsSold
  <1>10. ASSUME NEW r \in Requests, SoftDelete(r) PROVE TypeInv'
    <2>1. Unit(r) \in Units
      BY <1>10 DEF SoftDelete, AllOps
    <2>2. [units[Unit(r)] EXCEPT !.is_active = FALSE] \in Row
      <3>1. \A row \in Row : [row EXCEPT !.is_active = FALSE] \in Row
        BY DEF Row
      <3> QED BY <2>1, <3>1
    <2> QED BY <1>10, <2>1, <2>2, CommitTyped DEF SoftDelete
  <1>11. ASSUME NEW r \in Requests, Respond(r) PROVE TypeInv'
    <2>1. result[r] = "ok" /\ Op(r) # "sell" => Entry(r) \in Entries
      BY <1>11 DEF Respond, Entry, Entries, AllOps
    <2>2. scheduled' \subseteq Entries
      BY <1>11, <2>1 DEF Respond
    <2> QED BY <1>11, <2>2 DEF Respond, Op, Unit, locals
  <1>12. ASSUME NEW r \in Requests, Audit(r) PROVE TypeInv'
    BY <1>12 DEF Audit, InsertAudit, AuditFails, Struck, Op, Unit, locals
  <1>13. CASE Crash
    <2>1. struck' \subseteq Requests
      BY <1>13 DEF Crash, Struck, Entries
    <2> QED BY <1>13, <2>1 DEF Crash, Op, Unit
  <1>14. CASE Quiet \/ UNCHANGED vars
    BY <1>14 DEF Quiet, vars, Op, Unit
  <1> QED BY <1>1, <1>2, <1>3, <1>4, <1>5, <1>6, <1>7, <1>8, <1>9, <1>10, <1>11,
             <1>12, <1>13, <1>14 DEF Next, Handle, Audit

\* The types hold in every reachable state of the unit component, for any number
\* of requests: in particular every audit entry is a well formed row of
\* audit_logs.
THEOREM TypeCorrect == Spec => []TypeOK
  <1>1. TypeInv => TypeOK
    BY DEF TypeInv
  <1> QED BY <1>1, TypeInit, TypeStep, PTL DEF Spec
--------------------------------------------------------------------------------
\* Bookings.

\* Only a unit off the market has an owner, and somebody took every unit that is
\* off the market.
OwnerOK(u) ==
    /\ units[u].booked_by # None => units[u].status \in {"Booked", "Sold"}
    /\ units[u].status \in {"Booked", "Sold"} =>
          \E s \in Requests : TookUnit(s, u)

\* What is true of a booking that won, besides what OneWinner says of it.
WonOK(r) ==
    Won(r) =>
        /\ units[Unit(r)].status \in {"Booked", "Sold"}
        /\ units[Unit(r)].booked_by = call[r].user
        /\ old[r].status = "Available"
        /\ new[r].status = "Booked"
        /\ new[r].booked_by = call[r].user

\* The row the controller read is not ahead of the table: if the unit is still
\* free at the UPDATE it was free in oldUnit.
OldOK(r) ==
    pc[r] \in {"read", "write"} /\ Op(r) = "book" =>
        /\ Stored(Unit(r))
        /\ units[Unit(r)].status = "Available" => old[r].status = "Available"

\* An entry is the entry of a request that was answered with success.
EntryOK(e) == e = Entry(e.req) /\ pc[e.req] = "done" /\ result[e.req] = "ok"

BookInv ==
    /\ \A u \in Units : OwnerOK(u)
    /\ \A r \in Requests : WonOK(r) /\ OldOK(r)
    /\ \A r, s \in Requests : Won(r) /\ Won(s) /\ Unit(r) = Unit(s) => r = s
    /\ RefusalJustified
    /\ \A e \in auditLogs \cup scheduled : EntryOK(e)

\* How one row may change: not at all in its booking columns, or from absent to
\* available, from available to booked, or to sold.
Advance(row, next) ==
    \/ next.status = row.status /\ next.booked_by = row.booked_by
    \/ row.status = "absent" /\ next.status = "Available" /\ next.booked_by = None
    \/ row.status = "Available" /\ next.status = "Booked"
    \/ /\ row.status \in {"Available", "Booked"}
       /\ next.status = "Sold"
       /\ next.booked_by = row.booked_by
LEMMA BookInit == Init => BookInv
  <1> SUFFICES ASSUME Init PROVE BookInv
    OBVIOUS
  <1>1. \A u \in Units : units[u].status \in {"absent", "Available"}
                        /\ units[u].booked_by = None
    BY DEF Init, NoRow, NewRow
  <1> QED BY <1>1 DEF Init, BookInv, OwnerOK, WonOK, OldOK, Won, RefusalJustified,
                      NoCall, Op

\* What a write of r leaves alone: every other request, and of r all but its row,
\* its result and, for a create, its unit.
LEMMA CommitFrame ==
    ASSUME TypeInv, NEW r \in Requests, NEW u \in Units, NEW row \in Row,
           pc[r] = "write", Commit(r, u, row),
           \/ Op(r) # "create" /\ UNCHANGED call
           \/ Op(r) = "create" /\ call' = [call EXCEPT ![r].unit = u]
    PROVE  /\ \A s \in Requests : Op(s)' = Op(s) /\ call'[s].user = call[s].user
           /\ \A s \in Requests : Op(s) # "create" => Unit(s)' = Unit(s)
           /\ \A s \in Requests \ {r} :
                 /\ pc'[s] = pc[s] /\ result'[s] = result[s]
                 /\ before'[s] = before[s] /\ new'[s] = new[s]
                 /\ call'[s] = call[s]
           /\ pc'[r] = "answer" /\ result'[r] \in {"ok", "serverError"}
           /\ before[r] = None /\ before'[r] # None
           /\ \A v \in Units : units'[v] = IF v = u THEN row ELSE units[v]
           /\ UNCHANGED <<auditLogs, old, scheduled>>
  <1>1. /\ \A s \in Requests : Op(s)' = Op(s) /\ call'[s].user = call[s].user
        /\ \A s \in Requests : Op(s) # "create" => Unit(s)' = Unit(s)
        /\ \A s \in Requests \ {r} : call'[s] = call[s]
    BY DEF TypeInv, TypeOK, Op, Unit
  <1>2. \A s \in Requests \ {r} :
           /\ pc'[s] = pc[s] /\ result'[s] = result[s]
           /\ before'[s] = before[s] /\ new'[s] = new[s]
    BY DEF TypeInv, TypeOK, Commit, Decide
  <1>3. pc'[r] = "answer" /\ result'[r] \in {"ok", "serverError"}
    BY DEF TypeInv, TypeOK, Commit, Decide
  <1>4. before[r] = None /\ before'[r] # None
    <2>1. before'[r] = units[u] /\ units[u] \in Row
      BY DEF TypeInv, TypeOK, Commit
    <2> QED BY <2>1, UnitBookingAssumption DEF TypeInv, CallOK
  <1>5. \A v \in Units : units'[v] = IF v = u THEN row ELSE units[v]
    BY DEF TypeInv, TypeOK, Commit
  <1> QED BY <1>1, <1>2, <1>3, <1>4, <1>5 DEF Commit

\* An entry of a request that is done stays its entry while another request's
\* handler moves.
LEMMA EntriesStay ==
    ASSUME TypeInv, BookInv, NEW r \in Requests, pc[r] # "done",
           \A s \in Requests \ {r} :
               /\ pc'[s] = pc[s] /\ result'[s] = result[s] /\ new'[s] = new[s]
               /\ old'[s] = old[s] /\ call'[s] = call[s],
           auditLogs' \cup scheduled' \subseteq auditLogs \cup scheduled
    PROVE  \A e \in auditLogs' \cup scheduled' : EntryOK(e)'
  <1> SUFFICES ASSUME NEW e \in auditLogs' \cup scheduled' PROVE EntryOK(e)'
    OBVIOUS
  <1>1. EntryOK(e) /\ e.req \in Requests
    BY DEF BookInv, TypeInv, TypeOK, Entries
  <1>2. e.req # r
    BY <1>1 DEF EntryOK
  <1> QED BY <1>1, <1>2 DEF EntryOK, Entry, Op, Unit

\* A write that books nothing.
LEMMA OtherWrite ==
    ASSUME TypeInv, BookInv, NEW r \in Requests, NEW u \in Units, NEW row \in Row,
           pc[r] = "write", Op(r) # "book", Commit(r, u, row),
           \/ Op(r) # "create" /\ UNCHANGED call
           \/ Op(r) = "create" /\ call' = [call EXCEPT ![r].unit = u],
           Advance(units[u], row),
           row.status = "Booked" => units[u].status = "Booked",
           row.status = "Sold" /\ units[u].status # "Sold" =>
               Op(r) = "sell" /\ Unit(r) = u
    PROVE  BookInv'
  <1> USE CommitFrame
  <1>1. \A s \in Requests : (Won(s)' <=> Won(s)) /\ (Op(s) = "book" => Unit(s)' = Unit(s))
    BY DEF Won
  <1>2. \A s \in Requests : Op(s) \in {"book", "sell"} => Unit(s) \in Units \/ pc[s] = "idle"
    BY DEF TypeInv, CallOK, AllOps
  <1>3. \A s \in Requests, v \in Units : TookUnit(s, v) => TookUnit(s, v)'
    BY DEF TookUnit
  <1>4. ASSUME NEW v \in Units PROVE OwnerOK(v)'
    <2>1. CASE v # u
      BY <1>3, <2>1 DEF BookInv, OwnerOK
    <2>2. CASE v = u
      <3>1. row.booked_by # None => row.status \in {"Booked", "Sold"}
        BY DEF BookInv, OwnerOK, Advance
      <3>2. ASSUME row.status \in {"Booked", "Sold"}
            PROVE \E s \in Requests : TookUnit(s, u)'
        <4>1. CASE units[u].status \in {"Booked", "Sold"}
          BY <4>1, <1>3 DEF BookInv, OwnerOK
        <4>2. CASE units[u].status \notin {"Booked", "Sold"}
          <5>1. Op(r) = "sell" /\ Unit(r) = u
            BY <3>2, <4>2
          <5> QED BY <5>1 DEF TookUnit
        <4> QED BY <4>1, <4>2
      <3> QED BY <2>2, <3>1, <3>2 DEF OwnerOK
    <2> QED BY <2>1, <2>2
  <1>5. ASSUME NEW s \in Requests PROVE WonOK(s)'
    <2> SUFFICES ASSUME Won(s)' PROVE WonOK(s)'
      BY DEF WonOK
    <2>1. Won(s) /\ s # r /\ Unit(s)' = Unit(s) /\ Unit(s) \in Units
      BY <1>1, <1>2 DEF Won, TypeInv, CallOK
    <2>2. /\ units[Unit(s)].status \in {"Booked", "Sold"}
          /\ units[Unit(s)].booked_by = call[s].user
          /\ old[s].status = "Available" /\ new[s].status = "Booked"
          /\ new[s].booked_by = call[s].user
      BY <2>1 DEF BookInv, WonOK
    <2>3. /\ units'[Unit(s)].status \in {"Booked", "Sold"}
          /\ units'[Unit(s)].booked_by = units[Unit(s)].booked_by
      BY <2>1, <2>2 DEF Advance
    <2> QED BY <2>1, <2>2, <2>3 DEF WonOK
  <1>6. ASSUME NEW s \in Requests PROVE OldOK(s)'
    <2> SUFFICES ASSUME pc'[s] \in {"read", "write"}, Op(s)' = "book" PROVE OldOK(s)'
      BY DEF OldOK
    <2>1. s # r /\ pc[s] = pc'[s] /\ Op(s) = "book" /\ Unit(s)' = Unit(s)
          /\ Unit(s) \in Units /\ old'[s] = old[s]
      BY <1>2
    <2>2. /\ units[Unit(s)].status # "absent"
          /\ units[Unit(s)].status = "Available" => old[s].status = "Available"
      BY <2>1 DEF BookInv, OldOK, Stored
    <2>3. /\ units'[Unit(s)].status # "absent"
          /\ units'[Unit(s)].status = "Available" => units[Unit(s)].status = "Available"
      BY <2>1, <2>2 DEF Advance
    <2> QED BY <2>1, <2>2, <2>3 DEF OldOK, Stored
  <1>7. (\A s, t \in Requests : Won(s) /\ Won(t) /\ Unit(s) = Unit(t) => s = t)'
    BY <1>1 DEF BookInv, Won
  <1>8. RefusalJustified'
    <2> SUFFICES ASSUME NEW s \in Requests, Op(s)' = "book", result'[s] = "refused"
                 PROVE \E t \in Requests \ {s} : TookUnit(t, Unit(s))'
      BY DEF RefusalJustified
    <2>1. s # r /\ Op(s) = "book" /\ result[s] = "refused" /\ Unit(s)' = Unit(s)
      OBVIOUS
    <2>2. Unit(s) \in Units
      BY <2>1, <1>2 DEF TypeInv, CallOK
    <2>3. PICK t \in Requests \ {s} : TookUnit(t, Unit(s))
      BY <2>1 DEF BookInv, RefusalJustified
    <2> QED BY <2>1, <2>2, <2>3, <1>3 DEF TookUnit
  <1>9. \A e \in auditLogs' \cup scheduled' : EntryOK(e)'
    BY EntriesStay
  <1> QED BY <1>4, <1>5, <1>6, <1>7, <1>8, <1>9 DEF BookInv
\* The write that books: the UPDATE finds the unit free, so nobody has won it.
LEMMA BookWrite ==
    ASSUME TypeInv, BookInv, NEW r \in Requests, BookUnit(r)
    PROVE  BookInv'
  <1>1. PICK u \in Units :
           /\ u = Unit(r) /\ pc[r] = "write" /\ Op(r) = "book"
           /\ call[r].user \in Users
           /\ units[u].status = "Available" /\ UNCHANGED call
           /\ Commit(r, u, [units[u] EXCEPT !.status = "Booked",
                                           !.booked_by = call[r].user])
    BY DEF BookUnit, TypeInv, CallOK, AllOps
  <1>2. PICK row \in Row :
           /\ row.status = "Booked" /\ row.booked_by = call[r].user
           /\ Commit(r, u, row)
    <2>1. [units[u] EXCEPT !.status = "Booked", !.booked_by = call[r].user] \in Row
      BY <1>1 DEF TypeInv, TypeOK, Row, Statuses
    <2>2. units[u] \in Row
      BY DEF TypeInv, TypeOK
    <2> QED BY <1>1, <2>1, <2>2 DEF Row
  <1>3. /\ \A s \in Requests \ {r} :
              /\ pc'[s] = pc[s] /\ result'[s] = result[s]
              /\ before'[s] = before[s] /\ new'[s] = new[s]
        /\ pc'[r] = "answer" /\ result'[r] \in {"ok", "serverError"}
        /\ before[r] = None /\ before'[r] # None
        /\ \A v \in Units : units'[v] = IF v = u THEN row ELSE units[v]
        /\ UNCHANGED <<auditLogs, old, scheduled, call>>
    BY <1>1, <1>2, CommitFrame
  <1>4. result'[r] = "ok" => new'[r] = row
    BY <1>1, <1>2 DEF Commit, Decide, TypeInv, TypeOK
  <1>5. \A s \in Requests : Op(s)' = Op(s) /\ Unit(s)' = Unit(s)
    BY <1>3 DEF Op, Unit
  <1>6. \A s \in Requests \ {r} :
           /\ Won(s)' <=> Won(s)
           /\ Won(s) => Unit(s) \in Units /\ Unit(s) # u
    BY <1>1, <1>3, <1>5 DEF Won, BookInv, WonOK, TypeInv, CallOK, AllOps
  <1>7. \A s \in Requests, v \in Units : TookUnit(s, v) => TookUnit(s, v)'
    BY <1>3, <1>5 DEF TookUnit
  <1>8. TookUnit(r, u)'
    BY <1>1, <1>3, <1>5 DEF TookUnit
  <1>9. ASSUME NEW v \in Units PROVE OwnerOK(v)'
    <2>1. CASE v = u
      BY <1>2, <1>3, <1>8, <2>1 DEF OwnerOK
    <2>2. CASE v # u
      BY <1>3, <1>7, <2>2 DEF BookInv, OwnerOK
    <2> QED BY <2>1, <2>2
  <1>10. ASSUME NEW s \in Requests PROVE WonOK(s)'
    <2>1. CASE s = r
      <3>1. old[r].status = "Available"
        BY <1>1 DEF BookInv, OldOK
      <3> QED BY <1>1, <1>2, <1>3, <1>4, <1>5, <2>1, <3>1 DEF WonOK, Won
    <2>2. CASE s # r
      <3> SUFFICES ASSUME Won(s)' PROVE WonOK(s)'
        BY DEF WonOK
      <3>1. Won(s) /\ Unit(s) \in Units /\ Unit(s) # u /\ Unit(s)' = Unit(s)
        BY <1>5, <1>6, <2>2 DEF Won, Op, Unit
      <3>2. WonOK(s) /\ units'[Unit(s)] = units[Unit(s)] /\ new'[s] = new[s]
        BY <1>3, <2>2, <3>1 DEF BookInv
      <3> QED BY <1>3, <3>1, <3>2 DEF WonOK
    <2> QED BY <2>1, <2>2
  <1>11. ASSUME NEW s \in Requests PROVE OldOK(s)'
    <2> SUFFICES ASSUME pc'[s] \in {"read", "write"}, Op(s)' = "book" PROVE OldOK(s)'
      BY DEF OldOK
    <2>1. s # r /\ pc[s] = pc'[s] /\ Op(s) = "book" /\ Unit(s)' = Unit(s)
          /\ Unit(s) \in Units /\ old'[s] = old[s]
      BY <1>3, <1>5 DEF TypeInv, CallOK, AllOps
    <2> QED BY <1>2, <1>3, <2>1 DEF BookInv, OldOK, Stored
  <1>12. (\A s, t \in Requests : Won(s) /\ Won(t) /\ Unit(s) = Unit(t) => s = t)'
    <2> SUFFICES ASSUME NEW s \in Requests, NEW t \in Requests,
                        Won(s)', Won(t)', Unit(s)' = Unit(t)'
                 PROVE  s = t
      OBVIOUS
    <2>1. Unit(s) = Unit(t)
      BY <1>5
    <2>2. CASE s # r /\ t # r
      BY <1>6, <2>1, <2>2 DEF BookInv, Won, Op, Unit
    <2>3. CASE s = r \/ t = r
      BY <1>1, <1>6, <2>1, <2>3 DEF Won, Op, Unit
    <2> QED BY <2>2, <2>3
  <1>13. RefusalJustified'
    <2> SUFFICES ASSUME NEW s \in Requests, Op(s)' = "book", result'[s] = "refused"
                 PROVE \E t \in Requests \ {s} : TookUnit(t, Unit(s))'
      BY DEF RefusalJustified
    <2>1. s # r /\ Op(s) = "book" /\ result[s] = "refused" /\ Unit(s)' = Unit(s)
      BY <1>3, <1>5
    <2>2. Unit(s) \in Units
      BY <2>1 DEF TypeInv, CallOK, AllOps
    <2>3. PICK t \in Requests \ {s} : TookUnit(t, Unit(s))
      BY <2>1 DEF BookInv, RefusalJustified
    <2> QED BY <2>1, <2>2, <2>3, <1>7 DEF TookUnit
  <1>14. \A e \in auditLogs' \cup scheduled' : EntryOK(e)'
    BY <1>1, <1>3, EntriesStay
  <1> QED BY <1>9, <1>10, <1>11, <1>12, <1>13, <1>14 DEF BookInv

\* A step of the handler of r that neither writes nor answers.
LEMMA LocalStep ==
    ASSUME TypeInv, BookInv, NEW r \in Requests,
           pc[r] \in {"idle", "readOld", "read", "write"},
           UNCHANGED <<units, before, auditLogs, scheduled>>,
           \A s \in Requests \ {r} :
               /\ pc'[s] = pc[s] /\ result'[s] = result[s] /\ new'[s] = new[s]
               /\ old'[s] = old[s] /\ call'[s] = call[s],
           pc[r] = "idle" \/ call'[r] = call[r],
           result'[r] = "ok" => Op(r)' # "book",
           result'[r] = "refused" /\ Op(r)' = "book" =>
               Unit(r)' \in Units /\ units[Unit(r)'].status \in {"Booked", "Sold"},
           OldOK(r)'
    PROVE  BookInv'
  <1>1. before[r] = None
    BY DEF TypeInv, CallOK
  <1>2. \A s \in Requests \ {r} :
           Op(s)' = Op(s) /\ Unit(s)' = Unit(s) /\ (Won(s)' <=> Won(s))
    BY DEF Op, Unit, Won
  <1>3. \A v : \A s \in Requests : TookUnit(s, v) <=> TookUnit(s, v)'
    BY <1>1, <1>2 DEF TookUnit
  <1>4. \A v \in Units : OwnerOK(v)'
    BY <1>3 DEF BookInv, OwnerOK
  <1>5. \A s \in Requests : WonOK(s)' /\ OldOK(s)'
    BY <1>2 DEF BookInv, WonOK, OldOK, Won, Stored
  <1>6. (\A s, t \in Requests : Won(s) /\ Won(t) /\ Unit(s) = Unit(t) => s = t)'
    BY <1>2 DEF BookInv, Won
  <1>7. RefusalJustified'
    <2> SUFFICES ASSUME NEW s \in Requests, Op(s)' = "book", result'[s] = "refused"
                 PROVE \E t \in Requests \ {s} : TookUnit(t, Unit(s))'
      BY DEF RefusalJustified
    <2>1. CASE s = r
      <3>1. PICK t \in Requests : TookUnit(t, Unit(r)')
        BY <2>1 DEF BookInv, OwnerOK
      <3>2. t # r
        BY <1>1, <3>1 DEF TookUnit
      <3>3. TookUnit(t, Unit(r))'
        BY <1>2, <3>1, <3>2 DEF TookUnit
      <3> QED BY <2>1, <3>2, <3>3
    <2>2. CASE s # r
      <3>1. PICK t \in Requests \ {s} : TookUnit(t, Unit(s))
        BY <1>2, <2>2 DEF BookInv, RefusalJustified
      <3>2. t # r
        BY <1>1, <3>1 DEF TookUnit
      <3> QED BY <1>2, <2>2, <3>1, <3>2 DEF TookUnit
    <2> QED BY <2>1, <2>2
  <1>8. \A e \in auditLogs' \cup scheduled' : EntryOK(e)'
    BY EntriesStay
  <1> QED BY <1>4, <1>5, <1>6, <1>7, <1>8 DEF BookInv
LEMMA BookStep == TypeInv /\ BookInv /\ [Next]_vars => BookInv'
  <1> SUFFICES ASSUME TypeInv, BookInv, [Next]_vars PROVE BookInv'
    OBVIOUS
  <1>1. ASSUME NEW r \in Requests, Receive(r) PROVE BookInv'
    <2>1. PICK c \in Calls : call' = [call EXCEPT ![r] = c]
                             /\ pc' = [pc EXCEPT ![r] = FirstStep(c.op)]
      BY <1>1 DEF Receive
    <2>2. pc[r] = "idle" /\ result[r] = "none"
      BY <1>1 DEF Receive, TypeInv, CallOK
    <2>3. pc'[r] \in {"read", "write"} => c.op # "book"
      BY <2>1 DEF FirstStep, TypeInv, TypeOK
    <2>4. call'[r] = c
      BY <2>1 DEF TypeInv, TypeOK
    <2>5. OldOK(r)'
      BY <2>3, <2>4 DEF OldOK, Op
    <2> QED BY <1>1, <2>1, <2>2, <2>5, LocalStep DEF Receive, TypeInv, TypeOK
  <1>2. ASSUME NEW r \in Requests, ReadOld(r) PROVE BookInv'
    <2>1. result[r] = "none" /\ Unit(r) \in Units
      BY <1>2 DEF ReadOld, TypeInv, CallOK, AllOps
    <2>2. OldOK(r)'
      BY <1>2 DEF ReadOld, OldOK, Op, Unit, Stored, TypeInv, TypeOK
    <2> QED BY <1>2, <2>1, <2>2, LocalStep DEF ReadOld, TypeInv, TypeOK
  <1>3. ASSUME NEW r \in Requests, ReadUnit(r) PROVE BookInv'
    <2>1. result[r] = "none"
      BY <1>3 DEF ReadUnit, TypeInv, CallOK
    <2>2. OldOK(r)'
      BY <1>3 DEF ReadUnit, OldOK, Op, Unit, Stored, BookInv, locals
    <2> QED BY <1>3, <2>1, <2>2, LocalStep DEF ReadUnit, TypeInv, TypeOK, locals
  <1>4. ASSUME NEW r \in Requests, RefuseTaken(r) \/ BookMisses(r) PROVE BookInv'
    <2>1. /\ pc[r] \in {"read", "write"} /\ Op(r) = "book"
          /\ units[Unit(r)].status # "Available" /\ Decide(r, "refused")
          /\ UNCHANGED <<units, auditLogs, scheduled, call, old, new, before>>
      BY <1>4 DEF RefuseTaken, BookMisses, locals
    <2>2. Unit(r) \in Units /\ Stored(Unit(r))
      BY <2>1 DEF BookInv, OldOK, TypeInv, CallOK, AllOps
    <2>3. units[Unit(r)].status \in {"Booked", "Sold"}
      BY <2>1, <2>2 DEF Stored, TypeInv, TypeOK, Row, Statuses
    <2>4. OldOK(r)'
      BY <2>1 DEF Decide, OldOK, TypeInv, TypeOK
    <2>5. result'[r] = "refused" /\ Unit(r)' = Unit(r)
      BY <2>1 DEF Decide, Unit, TypeInv, TypeOK
    <2> QED BY <2>1, <2>2, <2>3, <2>4, <2>5, LocalStep DEF Decide, TypeInv, TypeOK
  <1>5. ASSUME NEW r \in Requests,
               NotFound(r) \/ InsertRejected(r) \/ SellMisses(r) \/ WriteFails(r)
               \/ AlreadySold(r)
        PROVE BookInv'
    <2>1. PICK res \in Results :
             /\ Decide(r, res)
             /\ res \in {"ok", "refused"} => Op(r) # "book"
      BY <1>5 DEF NotFound, InsertRejected, SellMisses, WriteFails, AlreadySold, Results
    <2>2. /\ pc[r] \in {"readOld", "read", "write"}
          /\ UNCHANGED <<units, auditLogs, scheduled, call, old, before>>
          /\ \A s \in Requests \ {r} : new'[s] = new[s]
      BY <1>5 DEF NotFound, InsertRejected, SellMisses, WriteFails, AlreadySold, locals,
                  TypeInv, TypeOK
    <2>3. OldOK(r)'
      BY <2>1 DEF Decide, OldOK, TypeInv, TypeOK
    <2>4. Op(r)' = Op(r) /\ result'[r] = res
      BY <2>1, <2>2 DEF Decide, Op, TypeInv, TypeOK
    <2> QED BY <2>1, <2>2, <2>3, <2>4, LocalStep DEF Decide, TypeInv, TypeOK
  <1>6. ASSUME NEW r \in Requests, InsertUnit(r) PROVE BookInv'
    <2>1. PICK u \in Units : /\ ~Stored(u)
                             /\ Commit(r, u, NewRow(call[r].patch.unit_number))
                             /\ call' = [call EXCEPT ![r].unit = u]
      BY <1>6 DEF InsertUnit
    <2>2. NewRow(call[r].patch.unit_number) \in Row
      BY DEF NewRow, Row, Patch, Statuses, TypeInv, TypeOK
    <2>3. Advance(units[u], NewRow(call[r].patch.unit_number))
      BY <2>1 DEF Advance, NewRow, Stored
    <2>4. NewRow(call[r].patch.unit_number).status = "Available"
      BY DEF NewRow
    <2> QED BY <1>6, <2>1, <2>2, <2>3, <2>4, OtherWrite DEF InsertUnit
  <1>7. ASSUME NEW r \in Requests, UpdateUnit(r) \/ SoftDelete(r) PROVE BookInv'
    <2>1. Unit(r) \in Units
      BY <1>7 DEF UpdateUnit, SoftDelete, TypeInv, CallOK, AllOps
    <2>2. PICK row \in Row : /\ Commit(r, Unit(r), row)
                             /\ row.status = units[Unit(r)].status
                             /\ row.booked_by = units[Unit(r)].booked_by
      <3>1. CASE UpdateUnit(r)
        <4>1. units[Unit(r)] \in Row /\ call[r].patch \in Patch
          BY <2>1 DEF TypeInv, TypeOK
        <4> QED BY <3>1, <4>1, PatchedTyped DEF UpdateUnit
      <3>2. CASE SoftDelete(r)
        <4>1. \A row \in Row : LET d == [row EXCEPT !.is_active = FALSE]
                               IN  d \in Row /\ d.status = row.status
                                   /\ d.booked_by = row.booked_by
          BY DEF Row
        <4> QED BY <2>1, <3>2, <4>1 DEF SoftDelete, TypeInv, TypeOK
      <3> QED BY <1>7, <3>1, <3>2
    <2>3. Advance(units[Unit(r)], row)
      BY <2>2 DEF Advance
    <2>4. pc[r] = "write" /\ Op(r) \in {"update", "delete"} /\ UNCHANGED call
      BY <1>7 DEF UpdateUnit, SoftDelete
    <2> QED BY <2>1, <2>2, <2>3, <2>4, OtherWrite
  <1>8. ASSUME NEW r \in Requests, MarkAsSold(r) PROVE BookInv'
    <2>1. Unit(r) \in Units
      BY <1>8 DEF MarkAsSold, TypeInv, CallOK, AllOps
    <2>2. PICK row \in Row : /\ Commit(r, Unit(r), row)
                             /\ row.status = "Sold"
                             /\ row.booked_by = units[Unit(r)].booked_by
      <3>1. \A row \in Row : LET d == [row EXCEPT !.status = "Sold"]
                             IN  d \in Row /\ d.status = "Sold"
                                 /\ d.booked_by = row.booked_by
        BY DEF Row, Statuses
      <3> QED BY <1>8, <2>1, <3>1 DEF MarkAsSold, TypeInv, TypeOK
    <2>3. Advance(units[Unit(r)], row)
      BY <1>8, <2>2 DEF MarkAsSold, Advance
    <2> QED BY <1>8, <2>1, <2>2, <2>3, OtherWrite DEF MarkAsSold
  <1>9. ASSUME NEW r \in Requests, BookUnit(r) PROVE BookInv'
    BY <1>9, BookWrite
  <1>10. ASSUME UNCHANGED <<units, call, old, new, result, before>>,
                \A s \in Requests :
                    /\ pc'[s] \in {"read", "write"} => pc[s] = pc'[s]
                    /\ pc[s] = "done" => pc'[s] = "done",
                \A e \in auditLogs' \cup scheduled' :
                    \/ e \in auditLogs \cup scheduled
                    \/ \E r \in Requests : e = Entry(r) /\ result[r] = "ok" /\ pc'[r] = "done"
         PROVE BookInv'
    <2>1. \A u \in Units : OwnerOK(u)'
      BY <1>10 DEF BookInv, OwnerOK, TookUnit, Op, Unit
    <2>2. \A s \in Requests : WonOK(s)' /\ OldOK(s)'
      BY <1>10 DEF BookInv, WonOK, OldOK, Won, Op, Unit, Stored
    <2>3. (\A s, t \in Requests : Won(s) /\ Won(t) /\ Unit(s) = Unit(t) => s = t)'
      BY <1>10 DEF BookInv, Won, Op, Unit
    <2>4. RefusalJustified'
      BY <1>10 DEF BookInv, RefusalJustified, TookUnit, Op, Unit
    <2>5. ASSUME NEW e \in auditLogs' \cup scheduled' PROVE EntryOK(e)'
      <3>1. CASE e \in auditLogs \cup scheduled
        <4>1. EntryOK(e) /\ e.req \in Requests
          BY <3>1 DEF BookInv, TypeInv, TypeOK, Entries
        <4> QED BY <1>10, <4>1 DEF EntryOK, Entry, Op, Unit
      <3>2. CASE \E r \in Requests : e = Entry(r) /\ result[r] = "ok" /\ pc'[r] = "done"
        BY <1>10, <3>2 DEF EntryOK, Entry, Op, Unit
      <3> QED BY <1>10, <2>5, <3>1, <3>2
    <2> QED BY <2>1, <2>2, <2>3, <2>4, <2>5 DEF BookInv
  <1>11. ASSUME NEW r \in Requests, Respond(r) PROVE BookInv'
    BY <1>10, <1>11 DEF Respond, locals, TypeInv, TypeOK
  <1>12. ASSUME NEW r \in Requests, Audit(r) PROVE BookInv'
    BY <1>10, <1>12 DEF Audit, InsertAudit, AuditFails, locals, TypeInv, TypeOK
  <1>13. CASE Crash
    BY <1>10, <1>13 DEF Crash, locals, InFlight, TypeInv, TypeOK
  <1>14. CASE Quiet \/ UNCHANGED vars
    BY <1>10, <1>14 DEF Quiet, vars
  <1> QED BY <1>1, <1>2, <1>3, <1>4, <1>5, <1>6, <1>7, <1>8, <1>9, <1>11, <1>12,
             <1>13, <1>14 DEF Next, Handle, Audit

--------------------------------------------------------------------------------
\* The audit trail.

\* What ties the entries of a request to what it did, unless a fault hit it: it is
\* answered with success exactly if it wrote, its entry is on its way from the
\* answer on, and it cannot be lost.
Tells(r) ==
    r \notin struck =>
        /\ Op(r) # "sell" => (result[r] = "ok" <=> before[r] # None)
        /\ pc[r] = "done" /\ result[r] = "ok" /\ Op(r) # "sell" =>
              \E e \in auditLogs \cup scheduled : e.req = r
        /\ pc[r] # "lost"

TrailInv == \A r \in Requests : Tells(r)

LEMMA TellsInit == Init => TrailInv
  BY DEF Init, Tells, TrailInv

\* A request whose handler does not move keeps its entries, as long as a step only
\* takes entries of requests it strikes.
LEMMA TellsStays ==
    ASSUME NEW s \in Requests, Tells(s),
           s \notin struck' => s \notin struck,
           s \notin struck' => \A e \in auditLogs \cup scheduled :
               e.req = s => e \in auditLogs' \cup scheduled',
           s \notin struck' => pc'[s] = pc[s],
           result'[s] = result[s], before'[s] = before[s], Op(s)' = Op(s)
    PROVE  Tells(s)'
  BY DEF Tells

\* A request that is about to be answered tells nothing before it is.
LEMMA TellsDecided ==
    ASSUME TypeInv, NEW r \in Requests, pc'[r] \in InFlight,
           r \notin struck' /\ Op(r)' # "sell" =>
               (result'[r] = "ok" <=> before'[r] # None)
    PROVE  Tells(r)'
  BY DEF Tells, InFlight

LEMMA TellsStep ==
    TypeInv /\ TrailInv /\ [Next]_vars => TrailInv'
  <1> SUFFICES ASSUME TypeInv, \A r \in Requests : Tells(r), [Next]_vars,
                      NEW s \in Requests
               PROVE  Tells(s)'
    BY DEF TrailInv
  <1>1. ASSUME NEW r \in Requests, s # r,
               Receive(r) \/ Handle(r)
        PROVE  Tells(s)'
    <2>1. /\ pc'[s] = pc[s] /\ result'[s] = result[s] /\ before'[s] = before[s]
          /\ Op(s)' = Op(s) /\ (s \notin struck' => s \notin struck)
      BY <1>1 DEF Receive, Handle, ReadOld, ReadUnit, RefuseTaken, AlreadySold, NotFound,
                  InsertUnit, InsertRejected, UpdateUnit, BookUnit, BookMisses,
                  MarkAsSold, SellMisses, SoftDelete, WriteFails, Respond, Commit,
                  Decide, Struck, locals, Op, TypeInv, TypeOK
    <2>2. auditLogs' = auditLogs /\ scheduled \subseteq scheduled'
      BY <1>1 DEF Receive, Handle, ReadOld, ReadUnit, RefuseTaken, AlreadySold, NotFound,
                  InsertUnit, InsertRejected, UpdateUnit, BookUnit, BookMisses,
                  MarkAsSold, SellMisses, SoftDelete, WriteFails, Respond, Commit
    <2> QED BY <2>1, <2>2, TellsStays
  <1>2. CASE Receive(s)
    <2>1. PICK c \in Calls : pc' = [pc EXCEPT ![s] = FirstStep(c.op)]
      BY <1>2 DEF Receive
    <2>2. pc'[s] \in InFlight
      BY <2>1 DEF FirstStep, InFlight, TypeInv, TypeOK
    <2>3. result'[s] = "none" /\ before'[s] = None
      BY <1>2 DEF Receive, TypeInv, CallOK
    <2> QED BY <2>2, <2>3, TellsDecided
  <1>3. CASE ReadOld(s) \/ ReadUnit(s)
    <2>1. pc'[s] \in InFlight /\ result'[s] = "none" /\ before'[s] = None
      BY <1>3 DEF ReadOld, ReadUnit, InFlight, TypeInv, TypeOK, CallOK, locals
    <2> QED BY <2>1, TellsDecided
  <1>4. CASE RefuseTaken(s) \/ AlreadySold(s) \/ NotFound(s) \/ InsertRejected(s)
             \/ BookMisses(s) \/ SellMisses(s) \/ WriteFails(s)
    <2>1. /\ pc[s] \in {"readOld", "read", "write"} /\ UNCHANGED before
          /\ pc'[s] = "answer" /\ Op(s)' = Op(s)
      BY <1>4 DEF RefuseTaken, AlreadySold, NotFound, InsertRejected, BookMisses,
                  SellMisses, WriteFails, Decide, locals, Op, TypeInv, TypeOK
    <2>2. before'[s] = None
      BY <2>1 DEF TypeInv, CallOK
    <2>3. s \notin struck' /\ Op(s) # "sell" => result'[s] # "ok"
      BY <1>4 DEF RefuseTaken, AlreadySold, NotFound, InsertRejected, BookMisses,
                  SellMisses, WriteFails, Decide, Struck, locals, TypeInv, TypeOK
    <2> QED BY <2>1, <2>2, <2>3, TellsDecided DEF InFlight
  <1>5. ASSUME NEW u \in Units, NEW row, Commit(s, u, row)
        PROVE  Tells(s)'
    <2>1. pc'[s] = "answer" /\ before'[s] = units[u] /\ units[u] \in Row
      BY <1>5 DEF Commit, Decide, TypeInv, TypeOK
    <2>2. s \notin struck' => result'[s] = "ok"
      BY <1>5 DEF Commit, Decide, Struck, TypeInv, TypeOK
    <2>3. before'[s] # None
      BY <2>1, UnitBookingAssumption
    <2> QED BY <2>1, <2>2, <2>3, TellsDecided DEF InFlight
  <1>6. CASE InsertUnit(s)
    BY <1>5, <1>6 DEF InsertUnit
  <1>7. CASE UpdateUnit(s) \/ BookUnit(s) \/ MarkAsSold(s) \/ SoftDelete(s)
    <2>1. Unit(s) \in Units
      BY <1>7 DEF UpdateUnit, BookUnit, MarkAsSold, SoftDelete, TypeInv, CallOK, AllOps
    <2> QED BY <1>5, <1>7, <2>1 DEF UpdateUnit, BookUnit, MarkAsSold, SoftDelete
  <1>8. CASE Respond(s)
    <2>1. /\ pc[s] = "answer" /\ pc'[s] = "done" /\ UNCHANGED <<result, before, struck>>
          /\ Op(s)' = Op(s) /\ auditLogs' = auditLogs
          /\ result[s] = "ok" /\ Op(s) # "sell" => Entry(s) \in scheduled'
      BY <1>8 DEF Respond, locals, Op, TypeInv, TypeOK
    <2>2. Entry(s).req = s
      BY DEF Entry
    <2> QED BY <2>1, <2>2 DEF Tells
  <1>9. ASSUME NEW r \in Requests, Audit(r) PROVE Tells(s)'
    <2>1. PICK e \in scheduled :
             /\ e.req = r /\ scheduled' = scheduled \ {e}
             /\ UNCHANGED <<pc, result, before, call>>
             /\ \/ auditLogs' = auditLogs \cup {e} /\ struck' = struck
                \/ auditLogs' = auditLogs /\ struck' = struck \cup {r}
      BY <1>9 DEF Audit, InsertAudit, AuditFails, Struck, locals
    <2> QED BY <2>1, TellsStays DEF Op
  <1>10. CASE Crash
    <2>1. /\ struck' = struck \cup {r \in Requests : pc[r] \in InFlight}
                              \cup {e.req : e \in scheduled}
          /\ pc'[s] = IF pc[s] \in InFlight THEN "lost" ELSE pc[s]
          /\ UNCHANGED <<auditLogs, result, before, call>>
      BY <1>10 DEF Crash, Struck
    <2> QED BY <2>1, TellsStays DEF Op
  <1>11. CASE Quiet \/ UNCHANGED vars
    BY <1>11, TellsStays DEF Quiet, vars, Op
  <1> QED BY <1>1, <1>2, <1>3, <1>4, <1>6, <1>7, <1>8, <1>9, <1>10, <1>11
          DEF Next, Handle

LEMMA Invariance == Spec => [](TypeInv /\ BookInv)
  BY TypeInit, TypeStep, BookInit, BookStep, PTL DEF Spec

LEMMA TellsInvariant == Spec => []TrailInv
  BY TypeInit, TypeStep, TellsInit, TellsStep, PTL DEF Spec
--------------------------------------------------------------------------------
\* Safety.

\* Whatever runs beside it, a booking answered 200 is the only one of its unit
\* and its user keeps the unit.
THEOREM OneWinnerHolds == Spec => []OneWinner
  <1>1. TypeInv /\ BookInv => OneWinner
    BY DEF BookInv, WonOK, OneWinner
  <1> QED BY <1>1, Invariance, PTL

\* A booking answered 400 lost to another request that has the unit.
THEOREM RefusalJustifiedHolds == Spec => []RefusalJustified
  <1>1. BookInv => RefusalJustified
    BY DEF BookInv
  <1> QED BY <1>1, Invariance, PTL

\* The BOOK entries of the audit trail are true, and one per unit.
THEOREM BookingTrailHolds == Spec => []BookingTrail
  <1>1. TypeInv /\ BookInv => BookingTrail
    <2> SUFFICES ASSUME TypeInv, BookInv,
                        NEW e \in auditLogs \cup scheduled, e.action = "book"
                 PROVE  /\ e.old_values.status = "Available"
                        /\ e.new_values.status = "Booked"
                        /\ e.new_values.booked_by = e.user_id
                        /\ units[e.entity_id].booked_by = e.user_id
                        /\ \A f \in auditLogs \cup scheduled :
                              f.action = "book" /\ f.entity_id = e.entity_id => f = e
      BY DEF BookingTrail
    <2>1. ASSUME NEW f \in auditLogs \cup scheduled, f.action = "book"
          PROVE  /\ f.req \in Requests /\ Won(f.req) /\ WonOK(f.req) /\ f = Entry(f.req)
                 /\ f.entity_id = Unit(f.req) /\ f.user_id = call[f.req].user
                 /\ f.old_values = old[f.req] /\ f.new_values = new[f.req]
      <3>1. f.req \in Requests /\ EntryOK(f)
        BY DEF TypeInv, TypeOK, Entries, BookInv
      <3>2. Op(f.req) = "book"
        BY <2>1, <3>1 DEF EntryOK, Entry
      <3> QED BY <3>1, <3>2 DEF EntryOK, Entry, Won, BookInv
    <2>2. \A f \in auditLogs \cup scheduled :
             f.action = "book" /\ f.entity_id = e.entity_id => f = e
      BY <2>1 DEF BookInv
    <2> QED BY <2>1, <2>2 DEF WonOK
  <1> QED BY <1>1, Invariance, PTL

\* Whatever fails, the trail tells exactly what the requests did that no fault hit.
THEOREM AuditTrailCompleteHolds == Spec => []AuditTrailComplete
  <1>1. TypeInv /\ BookInv /\ TrailInv => AuditTrailComplete
    <2> SUFFICES ASSUME TypeInv, BookInv, NEW r \in Requests, Tells(r),
                        r \notin struck, Settled(r)
                 PROVE  IF before[r] # None /\ Op(r) # "sell"
                        THEN \E e \in {f \in auditLogs : f.req = r} :
                                 {f \in auditLogs : f.req = r} = {e}
                        ELSE {f \in auditLogs : f.req = r} = {}
      BY DEF AuditTrailComplete, TrailInv
    <2>1. pc[r] = "done"
      BY DEF Settled, Tells
    <2>2. \A f \in auditLogs : f.req = r =>
             f = Entry(r) /\ result[r] = "ok" /\ Op(r) # "sell"
      <3> SUFFICES ASSUME NEW f \in auditLogs, f.req = r
                   PROVE  f = Entry(r) /\ result[r] = "ok" /\ Op(r) # "sell"
        OBVIOUS
      <3>1. EntryOK(f) /\ f.action # "sell"
        BY DEF BookInv, TypeInv, TypeOK, Entries
      <3> QED BY <3>1 DEF EntryOK, Entry
    <2>3. CASE before[r] # None /\ Op(r) # "sell"
      <3>1. PICK e \in auditLogs \cup scheduled : e.req = r
        BY <2>1, <2>3 DEF Tells
      <3>2. e \in auditLogs
        BY <3>1 DEF Settled
      <3>3. {f \in auditLogs : f.req = r} = {e}
        BY <2>2, <3>1, <3>2
      <3> QED BY <2>3, <3>1, <3>2, <3>3
    <2>4. CASE ~(before[r] # None /\ Op(r) # "sell")
      BY <2>2, <2>4 DEF Tells
    <2> QED BY <2>3, <2>4
  <1> QED BY <1>1, Invariance, TellsInvariant, PTL

\* Every step moves every row forward, if at all.
LEMMA RowsAdvance ==
    TypeInv /\ BookInv /\ [Next]_vars => \A u \in Units : Advance(units[u], units'[u])
  <1> SUFFICES ASSUME TypeInv, BookInv, [Next]_vars, NEW u \in Units
               PROVE  Advance(units[u], units'[u])
    OBVIOUS
  <1>1. CASE UNCHANGED units
    BY <1>1 DEF Advance
  <1>2. ASSUME NEW r \in Requests, NEW v \in Units, NEW row, Commit(r, v, row),
               Advance(units[v], row)
        PROVE  Advance(units[u], units'[u])
    <2>1. units'[u] = IF u = v THEN row ELSE units[u]
      BY <1>2 DEF Commit, TypeInv, TypeOK
    <2> QED BY <1>2, <2>1 DEF Advance
  <1>3. ASSUME NEW r \in Requests, pc[r] = "write", Op(r) # "create"
        PROVE  Unit(r) \in Units /\ units[Unit(r)] \in Row /\ call[r].patch \in Patch
    BY <1>3 DEF TypeInv, TypeOK, CallOK, AllOps
  <1>4. ASSUME NEW r \in Requests, InsertUnit(r) PROVE Advance(units[u], units'[u])
    <2>1. PICK v \in Units : ~Stored(v) /\ Commit(r, v, NewRow(call[r].patch.unit_number))
      BY <1>4 DEF InsertUnit
    <2> QED BY <1>2, <2>1 DEF Advance, NewRow, Stored
  <1>5. ASSUME NEW r \in Requests, UpdateUnit(r) PROVE Advance(units[u], units'[u])
    BY <1>2, <1>3, <1>5, PatchedTyped DEF UpdateUnit, Advance
  <1>6. ASSUME NEW r \in Requests, BookUnit(r) PROVE Advance(units[u], units'[u])
    BY <1>2, <1>3, <1>6 DEF BookUnit, Advance, Row
  <1>7. ASSUME NEW r \in Requests, MarkAsSold(r) PROVE Advance(units[u], units'[u])
    BY <1>2, <1>3, <1>7 DEF MarkAsSold, Advance, Row
  <1>8. ASSUME NEW r \in Requests, SoftDelete(r) PROVE Advance(units[u], units'[u])
    BY <1>2, <1>3, <1>8 DEF SoftDelete, Advance, Row
  <1> QED BY <1>1, <1>4, <1>5, <1>6, <1>7, <1>8
          DEF Next, Handle, Audit, Receive, ReadOld, ReadUnit, RefuseTaken, AlreadySold,
              NotFound, InsertRejected, BookMisses, SellMisses, WriteFails, Respond,
              InsertAudit, AuditFails, Crash, Quiet, vars, locals

\* No step takes a unit back from Booked or Sold, or from the user who has it.
THEOREM NeverTakenBackHolds == Spec => NeverTakenBack
  <1>1. TypeInv /\ BookInv /\ [Next]_vars =>
           [\A u \in Units :
               /\ Rank(units[u].status) <= Rank(units'[u].status)
               /\ units[u].booked_by # None =>
                     units'[u].booked_by = units[u].booked_by]_vars
    <2> SUFFICES ASSUME TypeInv, BookInv, [Next]_vars, NEW u \in Units
                 PROVE  /\ Rank(units[u].status) <= Rank(units'[u].status)
                        /\ units[u].booked_by # None =>
                              units'[u].booked_by = units[u].booked_by
      OBVIOUS
    <2>1. Advance(units[u], units'[u]) /\ OwnerOK(u)
      BY RowsAdvance DEF BookInv
    <2>2. units[u].status \in {"absent", "Available", "Booked", "Sold"}
      BY DEF TypeInv, TypeOK, Row, Statuses
    <2> QED BY <2>1, <2>2 DEF Advance, OwnerOK, Rank
  <1> QED BY <1>1, Invariance, PTL DEF NeverTakenBack, Spec
--------------------------------------------------------------------------------
\* What lists and statistics see of the units moves by the steps of UnitRows.

\* What lists and statistics see of a row.
View(row) == IF row.status # "absent"
             THEN [status |-> row.status, is_active |-> row.is_active,
                   unit_number |-> row.unit_number]
             ELSE None

\* A row there is has a number, and so has the row a create inserts.
Numbered ==
    /\ \A u \in Units : Stored(u) => units[u].unit_number \in Numbers
    /\ \A r \in Requests : Op(r) = "create" => call[r].patch.unit_number \in Numbers

LEMMA NumberedInit == Init => Numbered
  <1> SUFFICES ASSUME Init PROVE Numbered
    OBVIOUS
  <1>1. ASSUME NEW u \in Units, Stored(u) PROVE units[u].unit_number \in Numbers
    <2>1. units[u] # NoRow
      BY <1>1 DEF Stored, NoRow
    <2>2. PICK n \in Numbers : units[u] = NewRow(n)
      BY <2>1 DEF Init
    <2> QED BY <2>2 DEF NewRow
  <1>2. ASSUME NEW r \in Requests PROVE Op(r) # "create"
    BY DEF Init, NoCall, Op
  <1> QED BY <1>1, <1>2 DEF Numbered

\* A write leaves a numbered row.
LEMMA NumberedCommit ==
    ASSUME TypeInv, Numbered, NEW r \in Requests, NEW u \in Units, NEW row,
           Commit(r, u, row), row.unit_number \in Numbers,
           UNCHANGED call \/ call' = [call EXCEPT ![r].unit = u]
    PROVE  Numbered'
  <1>1. \A v \in Units : units'[v] = IF v = u THEN row ELSE units[v]
    BY DEF Commit, TypeInv, TypeOK
  <1>2. \A s \in Requests : call'[s].op = call[s].op /\ call'[s].patch = call[s].patch
    BY DEF TypeInv, TypeOK
  <1>3. ASSUME NEW v \in Units, Stored(v)' PROVE units'[v].unit_number \in Numbers
    BY <1>1, <1>3 DEF Numbered, Stored
  <1>4. ASSUME NEW s \in Requests, Op(s)' = "create"
        PROVE  call'[s].patch.unit_number \in Numbers
    BY <1>2, <1>4 DEF Numbered, Op
  <1> QED BY <1>3, <1>4 DEF Numbered

LEMMA NumberedStep == TypeInv /\ Numbered /\ [Next]_vars => Numbered'
  <1> SUFFICES ASSUME TypeInv, Numbered, [Next]_vars PROVE Numbered'
    OBVIOUS
  <1>1. CASE UNCHANGED <<units, call>>
    BY <1>1 DEF Numbered, Stored, Op
  <1>2. ASSUME NEW r \in Requests, Receive(r) PROVE Numbered'
    <2>1. PICK c \in Calls : call' = [call EXCEPT ![r] = c]
      BY <1>2 DEF Receive
    <2>2. c.op = "create" => c.patch.unit_number \in Numbers
      BY DEF Calls
    <2>3. \A s \in Requests : call'[s] = IF s = r THEN c ELSE call[s]
      BY <2>1 DEF TypeInv, TypeOK
    <2>4. ASSUME NEW s \in Requests, Op(s)' = "create"
          PROVE  call'[s].patch.unit_number \in Numbers
      BY <2>2, <2>3, <2>4 DEF Numbered, Op
    <2>5. units' = units
      BY <1>2 DEF Receive
    <2> QED BY <2>4, <2>5 DEF Numbered, Stored
  <1>3. ASSUME NEW r \in Requests, pc[r] = "write", Op(r) # "create"
        PROVE  Unit(r) \in Units /\ units[Unit(r)] \in Row /\ call[r].patch \in Patch
    BY <1>3 DEF TypeInv, TypeOK, CallOK, AllOps
  <1>4. ASSUME NEW r \in Requests, InsertUnit(r) PROVE Numbered'
    <2>1. PICK v \in Units : /\ Commit(r, v, NewRow(call[r].patch.unit_number))
                             /\ call' = [call EXCEPT ![r].unit = v]
      BY <1>4 DEF InsertUnit
    <2>2. NewRow(call[r].patch.unit_number).unit_number \in Numbers
      BY <1>4 DEF InsertUnit, Numbered, NewRow
    <2> QED BY <2>1, <2>2, NumberedCommit
  <1>5. ASSUME NEW r \in Requests, UpdateUnit(r) PROVE Numbered'
    <2> DEFINE row == Patched(units[Unit(r)], call[r].patch)
    <2>1. /\ Unit(r) \in Units /\ units[Unit(r)] \in Row /\ Stored(Unit(r))
          /\ call[r].patch \in Patch /\ Commit(r, Unit(r), row) /\ UNCHANGED call
      BY <1>3, <1>5 DEF UpdateUnit
    <2>2. row.unit_number \in Numbers
      BY <2>1 DEF Patched, Patch, Row, Numbered
    <2> QED BY <2>1, <2>2, NumberedCommit
  <1>6. ASSUME NEW r \in Requests, BookUnit(r) PROVE Numbered'
    <2> DEFINE row == [units[Unit(r)] EXCEPT !.status = "Booked", !.booked_by = call[r].user]
    <2>1. /\ Unit(r) \in Units /\ units[Unit(r)] \in Row /\ Stored(Unit(r))
          /\ Commit(r, Unit(r), row) /\ UNCHANGED call
      BY <1>3, <1>6 DEF BookUnit, Stored
    <2>2. row.unit_number \in Numbers
      BY <2>1 DEF Row, Numbered
    <2> QED BY <2>1, <2>2, NumberedCommit
  <1>7. ASSUME NEW r \in Requests, MarkAsSold(r) PROVE Numbered'
    <2> DEFINE row == [units[Unit(r)] EXCEPT !.status = "Sold"]
    <2>1. /\ Unit(r) \in Units /\ units[Unit(r)] \in Row /\ Stored(Unit(r))
          /\ Commit(r, Unit(r), row) /\ UNCHANGED call
      BY <1>3, <1>7 DEF MarkAsSold, Stored
    <2>2. row.unit_number \in Numbers
      BY <2>1 DEF Row, Numbered
    <2> QED BY <2>1, <2>2, NumberedCommit
  <1>8. ASSUME NEW r \in Requests, SoftDelete(r) PROVE Numbered'
    <2> DEFINE row == [units[Unit(r)] EXCEPT !.is_active = FALSE]
    <2>1. /\ Unit(r) \in Units /\ units[Unit(r)] \in Row /\ Stored(Unit(r))
          /\ Commit(r, Unit(r), row) /\ UNCHANGED call
      BY <1>3, <1>8 DEF SoftDelete
    <2>2. row.unit_number \in Numbers
      BY <2>1 DEF Row, Numbered
    <2> QED BY <2>1, <2>2, NumberedCommit
  <1> QED BY <1>1, <1>2, <1>4, <1>5, <1>6, <1>7, <1>8
          DEF Next, Handle, Audit, ReadOld, ReadUnit, RefuseTaken, AlreadySold,
              NotFound, InsertRejected, BookMisses, SellMisses, WriteFails, Respond,
              InsertAudit, AuditFails, Crash, Quiet, vars, locals

\* A numbered row that moves by the rules of the statements is seen to make a step
\* of UnitRows.
LEMMA ViewSteps ==
    ASSUME NEW row \in Row, NEW next \in Row,
           row.status # "absent" => row.unit_number \in Numbers, next.unit_number \in Numbers,
           \/ row.status = "absent" /\ next.status = "Available" /\ next.is_active = TRUE
           \/ row.status # "absent" /\ next.status = row.status
           \/ /\ \/ row.status = "Available" /\ next.status = "Booked"
                 \/ row.status \in {"Available", "Booked"} /\ next.status = "Sold"
              /\ next.is_active = row.is_active /\ next.unit_number = row.unit_number
    PROVE  View(next) \in Rows!UnitSteps(View(row))
  <1>1. /\ row.is_active \in BOOLEAN /\ next.is_active \in BOOLEAN
        /\ row.status \in {"absent", "Available", "Booked", "Sold"}
    BY DEF Row, Statuses
  <1>2. CASE row.status = "absent" /\ next.status = "Available" /\ next.is_active = TRUE
    <2>1. View(row) = None
      BY <1>2 DEF View
    <2>2. View(next) = Rows!NewUnit(next.unit_number)
      BY <1>2 DEF View, Rows!NewUnit
    <2> QED BY <2>1, <2>2 DEF Rows!UnitSteps
  <1>3. ASSUME row.status # "absent"
        PROVE  /\ View(row) = [status |-> row.status, is_active |-> row.is_active,
                               unit_number |-> row.unit_number]
               /\ View(row) # None /\ View(row) \in Rows!Unit
    BY <1>1, <1>3, UnitBookingAssumption DEF View, Statuses, Rows!Unit, Rows!Statuses
  <1>4. CASE row.status # "absent" /\ next.status = row.status
    <2>1. View(next) = [status |-> row.status, is_active |-> next.is_active,
                        unit_number |-> next.unit_number]
      BY <1>4 DEF View
    <2>2. View(next) \in Rows!Unit /\ View(next).status = View(row).status
      BY <1>1, <1>3, <1>4, <2>1 DEF Rows!Unit, Rows!Statuses
    <2>3. View(next) \in Rows!Patched(View(row))
      BY <2>2 DEF Rows!Patched
    <2> QED BY <1>3, <1>4, <2>3 DEF Rows!UnitSteps
  <1>5. ASSUME NEW status \in {"Booked", "Sold"}, row.status # "absent", next.status = status,
               next.is_active = row.is_active, next.unit_number = row.unit_number
        PROVE  View(next) = [View(row) EXCEPT !.status = status]
    BY <1>3, <1>5 DEF View
  <1>6. CASE /\ row.status = "Available" /\ next.status = "Booked"
             /\ next.is_active = row.is_active /\ next.unit_number = row.unit_number
    BY <1>3, <1>5, <1>6 DEF Rows!UnitSteps
  <1>7. CASE /\ row.status \in {"Available", "Booked"} /\ next.status = "Sold"
             /\ next.is_active = row.is_active /\ next.unit_number = row.unit_number
    BY <1>3, <1>5, <1>7 DEF Rows!UnitSteps
  <1> QED BY <1>2, <1>4, <1>6, <1>7

\* A write of such a row is seen as one step of the table.
LEMMA SeenCommit ==
    ASSUME TypeInv, NEW r \in Requests, NEW u \in Units, NEW row \in Row,
           Commit(r, u, row), View(row) \in Rows!UnitSteps(View(units[u]))
    PROVE  Rows!Changes(Seen, Seen')
  <1>1. \A v \in Units : units'[v] = IF v = u THEN row ELSE units[v]
    BY DEF Commit, TypeInv, TypeOK
  <1>2. Seen = [v \in Units |-> View(units[v])] /\ Seen' = [v \in Units |-> View(units'[v])]
    BY DEF Seen, View, Stored
  <1>3. Seen' = [Seen EXCEPT ![u] = View(row)]
    BY <1>1, <1>2
  <1>4. DOMAIN Seen = Units /\ Seen[u] = View(units[u])
    BY <1>2
  <1> QED BY <1>3, <1>4 DEF Rows!Changes

\* So is every step of the handlers that writes a row.
LEMMA SeenStep == TypeInv /\ Numbered /\ Numbered' /\ [Next]_vars => [Rows!Changes(Seen, Seen')]_Seen
  <1> SUFFICES ASSUME TypeInv, Numbered, Numbered', [Next]_vars
               PROVE  Seen' = Seen \/ Rows!Changes(Seen, Seen')
    OBVIOUS
  <1>1. CASE UNCHANGED units
    BY <1>1 DEF Seen, Stored
  <1>2. ASSUME NEW r \in Requests, pc[r] = "write", Op(r) # "create"
        PROVE  /\ Unit(r) \in Units /\ units[Unit(r)] \in Row /\ call[r].patch \in Patch
               /\ units[Unit(r)].status # "absent" => units[Unit(r)].unit_number \in Numbers
    BY <1>2 DEF TypeInv, TypeOK, CallOK, AllOps, Numbered, Stored
  <1>3. ASSUME NEW r \in Requests, NEW u \in Units, NEW row \in Row, Commit(r, u, row),
               row.status # "absent"
        PROVE  row.unit_number \in Numbers
    <2>1. units'[u] = row
      BY <1>3 DEF Commit, TypeInv, TypeOK
    <2> QED BY <1>3, <2>1 DEF Numbered, Stored
  <1>4. ASSUME NEW r \in Requests, InsertUnit(r) PROVE Rows!Changes(Seen, Seen')
    <2> DEFINE row == NewRow(call[r].patch.unit_number)
    <2>1. PICK v \in Units : ~Stored(v) /\ Commit(r, v, row)
      BY <1>4 DEF InsertUnit
    <2>2. /\ units[v] \in Row /\ units[v].status = "absent"
          /\ row \in Row /\ row.status = "Available" /\ row.is_active = TRUE
      BY <1>4, <2>1 DEF InsertUnit, TypeInv, TypeOK, Patch, NewRow, Row, Statuses, Stored
    <2> HIDE DEF row
    <2>3. View(row) \in Rows!UnitSteps(View(units[v]))
      BY <1>3, <2>1, <2>2, ViewSteps
    <2> QED BY <2>1, <2>2, <2>3, SeenCommit
  <1>5. ASSUME NEW r \in Requests, UpdateUnit(r) PROVE Rows!Changes(Seen, Seen')
    <2> DEFINE row == Patched(units[Unit(r)], call[r].patch)
    <2>1. /\ Unit(r) \in Units /\ units[Unit(r)] \in Row /\ units[Unit(r)].status # "absent"
          /\ call[r].patch \in Patch /\ Commit(r, Unit(r), row)
      BY <1>2, <1>5 DEF UpdateUnit, Stored
    <2>2. row \in Row /\ row.status = units[Unit(r)].status
      BY <2>1, PatchedTyped
    <2> HIDE DEF row
    <2>3. View(row) \in Rows!UnitSteps(View(units[Unit(r)]))
      BY <1>2, <1>3, <1>5, <2>1, <2>2, ViewSteps DEF UpdateUnit
    <2> QED BY <2>1, <2>2, <2>3, SeenCommit
  <1>6. ASSUME NEW r \in Requests, BookUnit(r) PROVE Rows!Changes(Seen, Seen')
    <2> DEFINE row == [units[Unit(r)] EXCEPT !.status = "Booked", !.booked_by = call[r].user]
    <2>1. /\ Unit(r) \in Units /\ units[Unit(r)] \in Row
          /\ units[Unit(r)].status = "Available" /\ Commit(r, Unit(r), row)
      BY <1>2, <1>6 DEF BookUnit
    <2>2. /\ row \in Row /\ row.status = "Booked"
          /\ row.is_active = units[Unit(r)].is_active
          /\ row.unit_number = units[Unit(r)].unit_number
      BY <2>1 DEF Row, Statuses, TypeInv, TypeOK
    <2> HIDE DEF row
    <2>3. View(row) \in Rows!UnitSteps(View(units[Unit(r)]))
      BY <1>2, <1>3, <1>6, <2>1, <2>2, ViewSteps DEF BookUnit
    <2> QED BY <2>1, <2>2, <2>3, SeenCommit
  <1>7. ASSUME NEW r \in Requests, MarkAsSold(r) PROVE Rows!Changes(Seen, Seen')
    <2> DEFINE row == [units[Unit(r)] EXCEPT !.status = "Sold"]
    <2>1. /\ Unit(r) \in Units /\ units[Unit(r)] \in Row
          /\ units[Unit(r)].status \in {"Available", "Booked"} /\ Commit(r, Unit(r), row)
      BY <1>2, <1>7 DEF MarkAsSold
    <2>2. /\ row \in Row /\ row.status = "Sold"
          /\ row.is_active = units[Unit(r)].is_active
          /\ row.unit_number = units[Unit(r)].unit_number
      BY <2>1 DEF Row, Statuses
    <2> HIDE DEF row
    <2>3. View(row) \in Rows!UnitSteps(View(units[Unit(r)]))
      BY <1>2, <1>3, <1>7, <2>1, <2>2, ViewSteps DEF MarkAsSold
    <2> QED BY <2>1, <2>2, <2>3, SeenCommit
  <1>8. ASSUME NEW r \in Requests, SoftDelete(r) PROVE Rows!Changes(Seen, Seen')
    <2> DEFINE row == [units[Unit(r)] EXCEPT !.is_active = FALSE]
    <2>1. /\ Unit(r) \in Units /\ units[Unit(r)] \in Row /\ units[Unit(r)].status # "absent"
          /\ Commit(r, Unit(r), row)
      BY <1>2, <1>8 DEF SoftDelete, Stored
    <2>2. row \in Row /\ row.status = units[Unit(r)].status
      BY <2>1 DEF Row
    <2> HIDE DEF row
    <2>3. View(row) \in Rows!UnitSteps(View(units[Unit(r)]))
      BY <1>2, <1>3, <1>8, <2>1, <2>2, ViewSteps DEF SoftDelete
    <2> QED BY <2>1, <2>2, <2>3, SeenCommit
  <1> QED BY <1>1, <1>4, <1>5, <1>6, <1>7, <1>8
          DEF Next, Handle, Audit, Receive, ReadOld, ReadUnit, RefuseTaken, AlreadySold,
              NotFound, InsertRejected, BookMisses, SellMisses, WriteFails, Respond,
              InsertAudit, AuditFails, Crash, Quiet, vars, locals

\* Whatever handlers do, the units that lists and statistics see, with the number
\* they are sorted by, start free and move by the steps TenantReports lets them take.
THEOREM UnitsStepwiseHolds == Spec => UnitsStepwise
  <1> DEFINE First == {None} \cup {Rows!NewUnit(n) : n \in Numbers}
  <1>1. Init => Seen \in [Units -> First]
    <2> SUFFICES ASSUME Init PROVE Seen \in [Units -> First]
      OBVIOUS
    <2>1. ASSUME NEW u \in Units PROVE Seen[u] \in First
      <3>1. units[u] = NoRow \/ \E n \in Numbers : units[u] = NewRow(n)
        BY DEF Init
      <3>2. CASE units[u] = NoRow
        BY <3>2 DEF Seen, Stored, NoRow
      <3>3. ASSUME NEW n \in Numbers, units[u] = NewRow(n)
            PROVE  Seen[u] \in First
        <4>1. units[u].status = "Available" /\ Stored(u)
          BY <3>3 DEF Stored, NewRow
        <4>2. units[u].is_active = TRUE
          BY <3>3 DEF NewRow
        <4>3. units[u].unit_number = n
          BY <3>3 DEF NewRow
        <4>4. Seen[u] = [status |-> units[u].status, is_active |-> units[u].is_active,
                         unit_number |-> units[u].unit_number]
          BY <4>1 DEF Seen
        <4>5. Seen[u] = Rows!NewUnit(n)
          BY <4>1, <4>2, <4>3, <4>4 DEF Rows!NewUnit
        <4> QED BY <4>5
      <3> QED BY <3>1, <3>2, <3>3
    <2> HIDE DEF First
    <2> QED BY <2>1 DEF Seen
  <1>2. TypeInv /\ Numbered /\ [Next]_vars => [Rows!Changes(Seen, Seen')]_Seen
    BY NumberedStep, SeenStep
  <1> QED BY <1>1, <1>2, NumberedInit, NumberedStep, Invariance, PTL DEF UnitsStepwise, Spec
--------------------------------------------------------------------------------
\* Refinement: the handlers implement the atomic ledger.

\* The refinement mapping of Ledger, named.
LStatus == [u \in Units |-> units[u].status]
LOwner == [u \in Units |-> units[u].booked_by]
LWant == [r \in Requests |-> IF Op(r) = "book"
              THEN [unit |-> Unit(r), user |-> call[r].user] ELSE None]
LVerdict == [r \in Requests |-> IF Op(r) = "book" THEN result[r] ELSE "none"]

LEMMA LedgerInit == Init => Ledger!Init
  <1> SUFFICES ASSUME Init PROVE Ledger!Init
    OBVIOUS
  <1>1. \A u \in Units : units[u].status \in {"absent", "Available"}
                        /\ units[u].booked_by = None
    BY DEF Init, NoRow, NewRow
  <1>2. \A r \in Requests : Op(r) = "none"
    BY DEF Init, NoCall, Op
  <1> QED BY <1>1, <1>2 DEF Ledger!Init

LEMMA LedgerStutter ==
    ASSUME LStatus' = LStatus, LOwner' = LOwner, LWant' = LWant, LVerdict' = LVerdict
    PROVE  UNCHANGED Ledger!ledgerVars
  BY DEF Ledger!ledgerVars, LStatus, LOwner, LWant, LVerdict

\* A booking request that is being handled is one the ledger has not decided.
LEMMA LedgerPending ==
    ASSUME TypeInv, NEW r \in Requests, Op(r) = "book",
           pc[r] \in {"readOld", "read", "write"}
    PROVE  /\ LWant[r].unit = Unit(r) /\ LWant[r].user = call[r].user
           /\ LWant[r] # None /\ LVerdict[r] = "none"
           /\ Unit(r) \in Units /\ call[r].user \in Users
  <1>1. Unit(r) \in Units /\ call[r].user \in Users /\ result[r] = "none"
    BY DEF TypeInv, CallOK, AllOps
  <1>2. [unit |-> Unit(r), user |-> call[r].user] # None
    BY <1>1, UnitBookingAssumption
  <1> QED BY <1>1, <1>2 DEF LWant, LVerdict

\* The answer of a booking that changes no row is a decision of the ledger.
LEMMA LedgerDecides ==
    ASSUME TypeInv, NEW r \in Requests, NEW res, Op(r) = "book",
           pc[r] \in {"readOld", "read", "write"}, Decide(r, res),
           UNCHANGED <<units, call>>,
           \/ res \in {"notFound", "serverError"}
           \/ res = "refused" /\ units[Unit(r)].status \in {"Booked", "Sold"}
    PROVE  Ledger!Refuse(r) \/ Ledger!Abandon(r)
  <1>1. /\ LStatus' = LStatus /\ LOwner' = LOwner /\ LWant' = LWant
        /\ LVerdict' = [LVerdict EXCEPT ![r] = res]
    BY DEF LStatus, LOwner, LWant, LVerdict, Op, Unit, Decide, TypeInv, TypeOK
  <1>2. LStatus[LWant[r].unit] = units[Unit(r)].status
    BY LedgerPending DEF LStatus
  <1>3. LWant[r] # None /\ LVerdict[r] = "none"
    BY LedgerPending
  <1> QED BY <1>1, <1>2, <1>3 DEF Ledger!Refuse, Ledger!Abandon, Ledger!Undecided,
                                  LStatus, LOwner, LWant, LVerdict

\* The UPDATE that books is the step in which the ledger gives the unit away.
LEMMA LedgerTakes ==
    ASSUME TypeInv, NEW r \in Requests, BookUnit(r)
    PROVE  \E told \in {"ok", "serverError"} : Ledger!Take(r, told)
  <1>1. /\ pc[r] = "write" /\ Op(r) = "book" /\ UNCHANGED call
        /\ units[Unit(r)].status = "Available"
    BY DEF BookUnit
  <1>2. PICK told \in {"ok", "serverError"} : result' = [result EXCEPT ![r] = told]
    BY <1>1 DEF BookUnit, Commit, Decide
  <1>3. /\ Unit(r) \in Units /\ LWant[r] # None /\ LVerdict[r] = "none"
        /\ LWant[r].unit = Unit(r) /\ LWant[r].user = call[r].user
    BY <1>1, LedgerPending
  <1>4. \A v \in Units :
           /\ units'[v].status = IF v = Unit(r) THEN "Booked" ELSE units[v].status
           /\ units'[v].booked_by = IF v = Unit(r) THEN call[r].user
                                    ELSE units[v].booked_by
    BY <1>3 DEF BookUnit, Commit, TypeInv, TypeOK, Row
  <1>5. /\ LStatus' = [LStatus EXCEPT ![Unit(r)] = "Booked"]
        /\ LOwner' = [LOwner EXCEPT ![Unit(r)] = call[r].user]
    BY <1>4 DEF LStatus, LOwner
  <1>6. LWant' = LWant /\ LVerdict' = [LVerdict EXCEPT ![r] = told]
    BY <1>1, <1>2 DEF LWant, LVerdict, Op, Unit, TypeInv, TypeOK
  <1>7. LStatus[Unit(r)] = "Available"
    BY <1>1, <1>3 DEF LStatus
  <1> QED BY <1>3, <1>5, <1>6, <1>7 DEF Ledger!Take, Ledger!Undecided,
                                        LStatus, LOwner, LWant, LVerdict

\* A write of another request moves the status of one unit, or nothing.
LEMMA LedgerOtherWrite ==
    ASSUME TypeInv, BookInv, NEW r \in Requests, NEW u \in Units, NEW row \in Row,
           pc[r] = "write", Op(r) # "book", Commit(r, u, row),
           \/ Op(r) # "create" /\ UNCHANGED call
           \/ Op(r) = "create" /\ call' = [call EXCEPT ![r].unit = u],
           row.booked_by = units[u].booked_by,
           \/ row.status = units[u].status
           \/ units[u].status = "absent" /\ row.status = "Available"
           \/ units[u].status \in {"Available", "Booked"} /\ row.status = "Sold"
    PROVE  [Ledger!Next]_(Ledger!ledgerVars)
  <1>1. /\ \A s \in Requests : Op(s)' = Op(s) /\ call'[s].user = call[s].user
        /\ \A s \in Requests : Op(s) # "create" => Unit(s)' = Unit(s)
        /\ \A s \in Requests \ {r} : result'[s] = result[s]
        /\ \A v \in Units : units'[v] = IF v = u THEN row ELSE units[v]
    BY CommitFrame
  <1>2. LWant' = LWant /\ LVerdict' = LVerdict
    BY <1>1 DEF LWant, LVerdict
  <1>3. LOwner' = LOwner /\ LStatus' = [LStatus EXCEPT ![u] = row.status]
    BY <1>1 DEF LOwner, LStatus
  <1>4. LStatus[u] = units[u].status
    BY DEF LStatus
  <1>5. CASE row.status = units[u].status
    <2>1. LStatus' = LStatus
      BY <1>1, <1>5 DEF LStatus
    <2> QED BY <1>2, <1>3, <2>1, LedgerStutter
  <1>6. CASE units[u].status = "absent" /\ row.status = "Available"
    <2>1. Ledger!Add(u)
      BY <1>2, <1>3, <1>4, <1>6 DEF Ledger!Add, LStatus, LOwner, LWant, LVerdict
    <2> QED BY <2>1 DEF Ledger!Next
  <1>7. CASE units[u].status \in {"Available", "Booked"} /\ row.status = "Sold"
    <2>1. Ledger!Sell(u)
      BY <1>2, <1>3, <1>4, <1>7 DEF Ledger!Sell, LStatus, LOwner, LWant, LVerdict
    <2> QED BY <2>1 DEF Ledger!Next
  <1> QED BY <1>5, <1>6, <1>7
LEMMA LedgerStep ==
    TypeInv /\ BookInv /\ [Next]_vars => [Ledger!Next]_(Ledger!ledgerVars)
  <1> SUFFICES ASSUME TypeInv, BookInv, [Next]_vars
               PROVE  [Ledger!Next]_(Ledger!ledgerVars)
    OBVIOUS
  <1>1. ASSUME NEW r \in Requests, Receive(r)
        PROVE  [Ledger!Next]_(Ledger!ledgerVars)
    <2>1. PICK c \in Calls : call' = [call EXCEPT ![r] = c]
      BY <1>1 DEF Receive
    <2>2. Op(r) = "none" /\ result[r] = "none" /\ UNCHANGED <<units, result>>
      BY <1>1 DEF Receive, TypeInv, CallOK, NoCall, Op
    <2>3. LStatus' = LStatus /\ LOwner' = LOwner
      BY <2>2 DEF LStatus, LOwner
    <2>4. LVerdict' = LVerdict
      BY <2>1, <2>2 DEF LVerdict, Op, TypeInv, TypeOK
    <2>5. LWant' = [LWant EXCEPT ![r] =
                      IF c.op = "book" THEN [unit |-> c.unit, user |-> c.user] ELSE None]
      BY <2>1 DEF LWant, Op, Unit, TypeInv, TypeOK
    <2>6. LWant[r] = None
      BY <2>2 DEF LWant
    <2>7. CASE c.op = "book"
      <3>1. c.unit \in Units /\ c.user \in Users
        BY <2>7, CallTyped
      <3>2. Ledger!Ask(r)
        BY <2>3, <2>4, <2>5, <2>6, <2>7, <3>1
           DEF Ledger!Ask, LStatus, LOwner, LWant, LVerdict
      <3> QED BY <3>2 DEF Ledger!Next
    <2>8. CASE c.op # "book"
      <3>1. LWant' = LWant
        BY <2>5, <2>6, <2>8 DEF LWant
      <3> QED BY <2>3, <2>4, <3>1, LedgerStutter
    <2> QED BY <2>7, <2>8
  <1>2. ASSUME UNCHANGED <<units, call, result>>
        PROVE  [Ledger!Next]_(Ledger!ledgerVars)
    BY <1>2, LedgerStutter DEF LStatus, LOwner, LWant, LVerdict, Op, Unit
  <1>3. ASSUME NEW r \in Requests, NEW res, Decide(r, res), UNCHANGED <<units, call>>,
               pc[r] \in {"readOld", "read", "write"},
               Op(r) = "book" =>
                  \/ res \in {"notFound", "serverError"}
                  \/ res = "refused" /\ units[Unit(r)].status \in {"Booked", "Sold"}
        PROVE  [Ledger!Next]_(Ledger!ledgerVars)
    <2>1. CASE Op(r) = "book"
      BY <1>3, <2>1, LedgerDecides DEF Ledger!Next
    <2>2. CASE Op(r) # "book"
      BY <1>3, <2>2, LedgerStutter
         DEF LStatus, LOwner, LWant, LVerdict, Op, Unit, Decide, TypeInv, TypeOK
    <2> QED BY <2>1, <2>2
  <1>4. ASSUME NEW r \in Requests,
               NotFound(r) \/ InsertRejected(r) \/ SellMisses(r) \/ WriteFails(r)
               \/ AlreadySold(r)
        PROVE  [Ledger!Next]_(Ledger!ledgerVars)
    BY <1>3, <1>4 DEF NotFound, InsertRejected, SellMisses, WriteFails, AlreadySold, locals
  <1>5. ASSUME NEW r \in Requests, RefuseTaken(r) \/ BookMisses(r)
        PROVE  [Ledger!Next]_(Ledger!ledgerVars)
    <2>1. /\ pc[r] \in {"read", "write"} /\ Op(r) = "book"
          /\ units[Unit(r)].status # "Available" /\ Decide(r, "refused")
          /\ UNCHANGED <<units, call>>
      BY <1>5 DEF RefuseTaken, BookMisses, locals
    <2>2. Unit(r) \in Units /\ Stored(Unit(r))
      BY <2>1 DEF BookInv, OldOK, TypeInv, CallOK, AllOps
    <2>3. units[Unit(r)].status \in {"Booked", "Sold"}
      BY <2>1, <2>2 DEF Stored, TypeInv, TypeOK, Row, Statuses
    <2> QED BY <1>3, <2>1, <2>3
  <1>6. ASSUME NEW r \in Requests, BookUnit(r)
        PROVE  [Ledger!Next]_(Ledger!ledgerVars)
    BY <1>6, LedgerTakes DEF Ledger!Next
  <1>7. ASSUME NEW r \in Requests, InsertUnit(r)
        PROVE  [Ledger!Next]_(Ledger!ledgerVars)
    <2>1. PICK u \in Units : /\ ~Stored(u)
                             /\ Commit(r, u, NewRow(call[r].patch.unit_number))
                             /\ call' = [call EXCEPT ![r].unit = u]
      BY <1>7 DEF InsertUnit
    <2>2. NewRow(call[r].patch.unit_number) \in Row
      BY DEF NewRow, Row, Patch, Statuses, TypeInv, TypeOK
    <2>3. NewRow(call[r].patch.unit_number).booked_by = units[u].booked_by
      BY <2>1 DEF NewRow, Stored, BookInv, OwnerOK
    <2> QED BY <1>7, <2>1, <2>2, <2>3, LedgerOtherWrite DEF InsertUnit, NewRow, Stored
  <1>8. ASSUME NEW r \in Requests, UpdateUnit(r) \/ SoftDelete(r) \/ MarkAsSold(r)
        PROVE  [Ledger!Next]_(Ledger!ledgerVars)
    <2>1. /\ pc[r] = "write" /\ Op(r) \in {"update", "delete", "sell"} /\ UNCHANGED call
          /\ Unit(r) \in Units /\ units[Unit(r)] \in Row /\ call[r].patch \in Patch
      BY <1>8 DEF UpdateUnit, SoftDelete, MarkAsSold, TypeInv, TypeOK, CallOK, AllOps
    <2>2. \A row \in Row :
             /\ [row EXCEPT !.is_active = FALSE] \in Row
             /\ [row EXCEPT !.is_active = FALSE].status = row.status
             /\ [row EXCEPT !.is_active = FALSE].booked_by = row.booked_by
             /\ [row EXCEPT !.status = "Sold"] \in Row
             /\ [row EXCEPT !.status = "Sold"].status = "Sold"
             /\ [row EXCEPT !.status = "Sold"].booked_by = row.booked_by
      BY DEF Row, Statuses
    <2>3. PICK row \in Row :
             /\ Commit(r, Unit(r), row)
             /\ row.booked_by = units[Unit(r)].booked_by
             /\ \/ row.status = units[Unit(r)].status
                \/ units[Unit(r)].status \in {"Available", "Booked"} /\ row.status = "Sold"
      BY <1>8, <2>1, <2>2, PatchedTyped DEF UpdateUnit, SoftDelete, MarkAsSold
    <2> QED BY <2>1, <2>3, LedgerOtherWrite
  <1>9. ASSUME NEW r \in Requests,
               ReadOld(r) \/ ReadUnit(r) \/ Respond(r) \/ Audit(r)
        PROVE  [Ledger!Next]_(Ledger!ledgerVars)
    BY <1>2, <1>9 DEF ReadOld, ReadUnit, Respond, Audit, InsertAudit, AuditFails, locals
  <1>10. CASE Crash \/ Quiet \/ UNCHANGED vars
    BY <1>2, <1>10 DEF Crash, Quiet, vars, locals
  <1> QED BY <1>1, <1>4, <1>5, <1>6, <1>7, <1>8, <1>9, <1>10 DEF Next, Handle, Audit

\* The unit component implements the atomic booking ledger: whatever the handlers
\* interleave and however they fail, each booking is decided at one instant.
THEOREM BookingsAreAtomicHolds == Spec => BookingsAreAtomic
  BY LedgerInit, LedgerStep, Invariance, PTL DEF BookingsAreAtomic, Spec, Ledger!Spec
================================================================================
