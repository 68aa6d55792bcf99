\* Collection, retries, events and one failure; the second month begins.
SPECIFICATION Spec
CONSTANTS
    e1 = e1
    c1 = c1
    r1 = r1
    Enrollments = {e1}
    Collectors = {c1}
    Retriers = {r1}
    MaxTxns = 3
    MonthLength = 3
    DueDay = 1
    Every = 1
    RetryDays <- TwoDays
    MaxAttempts = 2
    Outcomes = {"processing", "none"}
    FailureEvents = 1
    MaxDay = 4
    MaxEdits = 0
    MaxFaults = 1
    NoEnrollment = NoEnrollment
    NoTxn = NoTxn
INVARIANTS
    TypeOK
    OneRetryEach
    NeverOvercharged
CHECK_DEADLOCK FALSE
