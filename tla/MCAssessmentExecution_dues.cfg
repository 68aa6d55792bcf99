\* Sweeps and on-demand runs: dues of two units, installments and late fees.
SPECIFICATION FairSpec
CONSTANTS
    m1 = m1
    u1 = u1
    u2 = u2
    dues = dues
    roof = roof
    late = late
    Machines = {m1}
    Sweepers = {m1}
    Units = {u1, u2}
    Rules = {dues, late, roof}
    TypeOf <- MCTypeOf
    MonthsOf <- MCMonthsOf
    UnitsOf <- MCUnitsOf
    OwnersAt <- MCOwnersAt
    Delinquent <- MCDelinquent
    Demands <- DuesDemands
    Large = FALSE
    Jobs = {}
    MaxPeriod = 2
    MaxFaults = 1
    NoMachine = NoMachine
    NoJob = NoJob
    NoKey = NoKey
INVARIANTS
    TypeOK
    ChargedOncePerPeriod
    NoSilentMiss
    LogIsTrue
PROPERTY
    InstallmentsArePosted
CHECK_DEADLOCK FALSE
