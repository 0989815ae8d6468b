\* A delayed alert under the fairness of the notifier's loop.
CONSTANTS
    t1 = t1  t2 = t2  c3 = c3
    Tenants = {t1, t2}
    Monitors = {m1}
    Channels = {c1}
    EmailChannels = {}
    Windows = {}
    IncidentIds = {i1, i2}
    TenantOf <- OneTenant
    Delays = {0, 1}
    Sweepers = {s1, s2}
    MaxFails = 3
    MaxAge = 2
SPECIFICATION FairSpec
PROPERTIES DelayedAlertsAreSent
