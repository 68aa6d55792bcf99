\* The bank takes a deposit back: two deposits and three entries.
SPECIFICATION Spec
CONSTANTS
    r1 = r1
    r2 = r2
    MaxDeposits = 2
    MaxEntries = 3
    Delta <- Near
    Window = 3
    Runs = {r1, r2}
INVARIANT
    SettledKeepsDeposit
SYMMETRY TwoRuns
CHECK_DEADLOCK FALSE
