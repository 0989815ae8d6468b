\* Two replicas, nothing fails.
CONSTANTS
    Ids = {n1}
    Notifiers = {r1, r2}
    Limit = 1
    maxAttempts = 6
    MaxFaults = 0
    MaxDelivered = 2
SPECIFICATION Spec
INVARIANTS NoRowHandedToTwo
