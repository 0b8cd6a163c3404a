------------------------------- MODULE UnitRows --------------------------------
(***************************************************************************)
(* What whoever counts or lists units can see of a row of the units table, *)
(* its place in the order of the list included, and what one statement may *)
(* make of it: INSERT, the guarded updates of book and markAsSold,         *)
(* softDelete, and a PATCH, which may set is_active and unit_number.       *)
(* TenantReports lets units change by these steps and no handler;          *)
(* UnitBooking, which has the handlers, is shown to take no other          *)
(* (UnitsStepwise).                                                        *)
(***************************************************************************)
CONSTANTS
    None,       \* no row
    Numbers     \* values of unit_number; no index keeps two units from having one

Statuses == {"Available", "Booked", "Sold"}
Unit == [status : Statuses, is_active : BOOLEAN, unit_number : Numbers]
NewUnit(n) == [status |-> "Available", is_active |-> TRUE, unit_number |-> n]

\* What a PATCH, which may set is_active and unit_number, can make of u.
Patched(u) == {w \in Unit : w.status = u.status}

\* The rows that one statement can make of u.
UnitSteps(u) ==
    IF u = None THEN {NewUnit(n) : n \in Numbers}
    ELSE Patched(u)
         \cup (IF u.status = "Available" THEN {[u EXCEPT !.status = "Booked"]} ELSE {})
         \cup (IF u.status # "Sold" THEN {[u EXCEPT !.status = "Sold"]} ELSE {})

\* A table becomes another one by one such step of one row.
Changes(table, next) ==
    \E p \in DOMAIN table : \E u \in UnitSteps(table[p]) : next = [table EXCEPT ![p] = u]
================================================================================
