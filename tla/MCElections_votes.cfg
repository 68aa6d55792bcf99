\* One unit that is sold, two requests at a time, everything an administrator does.
SPECIFICATION Spec
CONSTANTS
    p1 = p1
    p2 = p2
    u1 = u1
    Persons = {p1, p2}
    Units = {u1}
    Slots = {s1, s2}
    Rule = "unit-weighted"
    Quorum = 50
    FirstOwners <- OneUnit
    MaxTurns = 2
    NoPerson = NoPerson
    NoUnit = NoUnit
    NoCertificate = NoCertificate
SYMMETRY Alike
INVARIANTS
    TypeOK
    SpentTokens
    CertificateStands
    CertificateIsComplete
PROPERTY BallotsAreKept
CHECK_DEADLOCK FALSE
