\* Two replicas that claim one row at a time, two rows competing for it, a fault.
CONSTANTS
    Ids = {n1, n2}
    Notifiers = {r1, r2}
    Limit = 1
    maxAttempts = 3
    MaxFaults = 1
    MaxDelivered = 3
SPECIFICATION FairSpec
INVARIANTS TypeOK SentWasDelivered DuplicatesNeedACause
PROPERTIES SettledRowsStaySettled EveryRowSettles
