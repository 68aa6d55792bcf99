\* Two concurrent handlers, one that may die; the success events of both
\* endpoints and a pending one that may come late.
SPECIFICATION Spec
CONSTANTS
    p1 = p1
    s1 = s1
    s2 = s2
    Payments = {p1}
    Slots = {s1, s2}
    Subscribed = {"hoa.session.paid", "hoa.intent.succeeded", "hoa.session.unpaid",
                  "cc.charge.succeeded", "cc.payout.paid"}
    MaxRefunds = 0
    MaxFaults = 1
    NoEvent = NoEvent
SYMMETRY SlotSymmetry
INVARIANTS
    TypeOK
    NoDoubleCredit
    OnlyCapturedMoney
    AckedChargeIsCredited
    AckedHoaSuccessIsCredited
    ProcessedIsCredited
    AnsweredChargeIsSettled
PROPERTIES
    CreditsExactlyOnce
CHECK_DEADLOCK FALSE
