CONSTANTS
    Requests = {r1, r2, r3}
    Users = {ann, sid}
    Admins = {ann}
    Units = {u1}
    Numbers = {n1, n2}
    Ops = {"create", "update", "book", "delete", "sell"}
    Faults = {"ack"}
    None = None
SYMMETRY Symmetry
SPECIFICATION Spec
INVARIANTS
    TypeOK
    OneWinner
    RefusalJustified
    BookingTrail
PROPERTIES
    NeverTakenBack
    UnitsStepwise
