----------------------------- MODULE BookingLedger -----------------------------
(***************************************************************************)
(* What the unit component promises its callers about bookings, with no    *)
(* handler, no read-then-write and no database statement in it: a booking  *)
(* request is decided in ONE atomic step, by the status the unit has at    *)
(* that instant.  UnitBooking, whose handlers read the row twice and write *)
(* it at three different moments, implements this module (the refinement   *)
(* mapping is its INSTANCE Ledger).                                        *)
(***************************************************************************)

CONSTANTS
    Requests,   \* identities of requests
    Users,      \* ids of the tenant's users
    Units,      \* ids of units
    None        \* no request / no owner

VARIABLES
    status,     \* status of each unit, "absent" before it is created
    owner,      \* booked_by of each unit
    want,       \* the booking each request asks for, None for another request
    verdict     \* how each booking request was decided

ledgerVars == <<status, owner, want, verdict>>

Init ==
    /\ status \in [Units -> {"absent", "Available"}]
    /\ owner = [u \in Units |-> None]
    /\ want = [r \in Requests |-> None]
    /\ verdict = [r \in Requests |-> "none"]

Ask(r) ==
    /\ want[r] = None
    /\ \E u \in Units, x \in Users :
          want' = [want EXCEPT ![r] = [unit |-> u, user |-> x]]
    /\ UNCHANGED <<status, owner, verdict>>

Undecided(r) == want[r] # None /\ verdict[r] = "none"

\* The unit goes to the user who asks, if nobody has it.  The caller is told so
\* ("ok"), or the database's acknowledgement is lost ("serverError").
Take(r, told) ==
    /\ Undecided(r)
    /\ status[want[r].unit] = "Available"
    /\ status' = [status EXCEPT ![want[r].unit] = "Booked"]
    /\ owner' = [owner EXCEPT ![want[r].unit] = want[r].user]
    /\ verdict' = [verdict EXCEPT ![r] = told]
    /\ UNCHANGED want

\* A request is refused only at an instant when somebody has the unit.
Refuse(r) ==
    /\ Undecided(r)
    /\ status[want[r].unit] \in {"Booked", "Sold"}
    /\ verdict' = [verdict EXCEPT ![r] = "refused"]
    /\ UNCHANGED <<status, owner, want>>

\* A request may also end without effect: the unit was not found, or a
\* statement failed.
Abandon(r) ==
    /\ Undecided(r)
    /\ \E v \in {"notFound", "serverError"} :
          verdict' = [verdict EXCEPT ![r] = v]
    /\ UNCHANGED <<status, owner, want>>

Add(u) ==
    /\ status[u] = "absent"
    /\ status' = [status EXCEPT ![u] = "Available"]
    /\ UNCHANGED <<owner, want, verdict>>

Sell(u) ==
    /\ status[u] \in {"Available", "Booked"}
    /\ status' = [status EXCEPT ![u] = "Sold"]
    /\ UNCHANGED <<owner, want, verdict>>

Next ==
    \/ \E r \in Requests :
          \/ Ask(r)
          \/ Refuse(r)
          \/ Abandon(r)
          \/ \E told \in {"ok", "serverError"} : Take(r, told)
    \/ \E u \in Units : Add(u) \/ Sell(u)

Spec == Init /\ [][Next]_ledgerVars
================================================================================
