\* Two schedulers, and two monitors competing for a claim of one.
CONSTANTS
    Monitors = {m1, m2}
    Schedulers = {s1, s2}
    Workers = {w1}
    Limit = 1
    Faults = TRUE
    MaxInFlight = 1
    Kept = 1
SPECIFICATION FairSpec
INVARIANTS TypeOK
PROPERTIES EnabledMonitorsAreChecked
