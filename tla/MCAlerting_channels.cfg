\* A monitor, an email and a slack channel and a window of one tenant, a slack
\* channel of another.
CONSTANTS
    t1 = t1  t2 = t2  c3 = c3
    Tenants = {t1, t2}
    Monitors = {m1}
    Channels = {c1, c2, c3}
    EmailChannels = {c1}
    Windows = {w1}
    IncidentIds = {i1, i2}
    TenantOf <- TwoTenants
    Delays = {0, 1}
    Sweepers = {s1}
    MaxFails = 3
    MaxAge = 2
SPECIFICATION Spec
SYMMETRY IncidentSymmetry
INVARIANTS TypeOK OneOpenIncidentWhileDown DownFromThreshold AnnouncementsAreCoherent TenantIsolation
PROPERTIES ImplementsOutages RecoveryReachesPagedChannels FallsBackToAllChannels
