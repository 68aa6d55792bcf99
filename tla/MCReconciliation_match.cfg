\* Two runs of any kind over two deposits and three entries.
SPECIFICATION Spec
CONSTANTS
    r1 = r1
    r2 = r2
    MaxDeposits = 2
    MaxEntries = 3
    Delta <- Near
    Window = 3
    Runs = {r1, r2}
INVARIANTS
    TypeOK
PROPERTIES
    OneEntryPerDeposit
    EntrySettlesOnce
SYMMETRY TwoRuns
CHECK_DEADLOCK FALSE
