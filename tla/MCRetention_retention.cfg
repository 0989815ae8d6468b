\* A monitor, three days and their results, two plans, one midnight in a pass.
CONSTANTS
    t1 = t1
    Tenants = {t1}
    Monitors = {m1}
    TenantOf <- OneTenant
    Periods = {2, 3}
    Hours = 2
    BatchSize = 1
    None = None
    MaxMidnights = 1
    MaxDay = 3
    MaxResults = 2
    MaxFaults = 2
SPECIFICATION FairSpec
INVARIANTS NothingIsLost TodayIsLive
PROPERTIES SameNumbersAgain CatchesUp
