\* Two background jobs and two server processes, neither of which sweeps.
SPECIFICATION FairSpec
CONSTANTS
    m1 = m1
    m2 = m2
    u1 = u1
    u2 = u2
    dues = dues
    roof = roof
    late = late
    j1 = j1
    j2 = j2
    Machines = {m1, m2}
    Sweepers = {}
    Units = {u1}
    Rules = {roof}
    TypeOf <- MCTypeOf
    MonthsOf <- MCMonthsOf
    UnitsOf <- MCUnitsOf
    OwnersAt <- MCOwnersAt
    Delinquent <- MCDelinquent
    Demands <- RoofDemands
    Large = TRUE
    Jobs = {j1, j2}
    MaxPeriod = 1
    MaxFaults = 2
    NoMachine = NoMachine
    NoJob = NoJob
    NoKey = NoKey
PROPERTY
    EveryJobEnds
CHECK_DEADLOCK FALSE
