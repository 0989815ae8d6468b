\* A monitor whose target changes its certificate, one worker, two replicas.
CONSTANTS
    t1 = t1
    Tenants = {t1}
    Monitors = {m1}
    TenantOf <- OneTenant
    Certs = {A, B}
    Channels = {c1}
    WarnDays = {2}
    Workers = {w1}
    Replicas = {n1, n2}
    None = None
    MaxLeft = 2
    MaxRenewals = 1
    MaxFaults = 1
SPECIFICATION FairSpec
INVARIANTS OneWarningPerCertificate MarkedMeansWarned
PROPERTIES CertificatesAreFollowed WarningsGoOut
