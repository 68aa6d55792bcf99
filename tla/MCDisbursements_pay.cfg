\* Three requests at once by three admins on one row; any may fail.
SPECIFICATION Spec
CONSTANTS
    a1 = a1
    a2 = a2
    a3 = a3
    r1 = r1
    r2 = r2
    r3 = r3
    Admins = {a1, a2, a3}
    Requests = {r1, r2, r3}
    Nobody = Nobody
INVARIANTS
    PaidWasApproved
    DecidedByAnother
SYMMETRY AnyOfThem
CHECK_DEADLOCK FALSE
