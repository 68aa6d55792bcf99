\* Three requests at once on one action of any kind, by a board officer and a manager.
SPECIFICATION Spec
CONSTANTS
    b1 = b1
    a1 = a1
    r1 = r1
    r2 = r2
    r3 = r3
    Admins = {b1, a1}
    Board = {b1}
    Requests = {r1, r2, r3}
    Nobody = Nobody
INVARIANTS
    TypeOK
    ExecutedWasApproved
    EffectWasApproved
    IssuedIsLogged
SYMMETRY AnyOfThem
CHECK_DEADLOCK FALSE
