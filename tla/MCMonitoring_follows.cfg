\* Two schedulers and two workers, everything fails now and then.
CONSTANTS
    t1 = t1  m1 = m1
    TenantOf <- OneTenant
    Tenants = {t1}
    Monitors = {m1}
    Channels = {}
    EmailChannels = {}
    Windows = {}
    IncidentIds = {i1, i2, i3}
    Delays = {0}
    Sweepers = {}
    MaxFails = 3
    MaxAge = 1
    Schedulers = {s1, s2}
    Workers = {w1, w2}
    Limit = 1
    Faults = TRUE
    MaxInFlight = 2
    Kept = 0
    MaxFlips = 2
SPECIFICATION MonitoringFairSpec
INVARIANTS OneCheckPerDueInstant
PROPERTIES StatusFollowsTarget
