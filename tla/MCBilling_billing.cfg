\* One tenant, two checkouts, up to two customers and subscriptions, a fault.
CONSTANTS
    Tenants = {t1}
    Customers = {k1, k2}
    Subs = {s1, s2}
    Paid = {starter, pro}
    Requests = {r1}
    None = None
    MaxEvents = 4
    MaxHandling = 1
    MaxFaults = 1
SPECIFICATION Spec
SYMMETRY Symmetry
INVARIANTS PlansWereBought EventsAreHandledOnce DroppedOnlyWithCause
PROPERTIES PaidForIsNotRevoked DeletionCancelsFirst
\* Nothing happens any more once every tenant has deleted its account.
CHECK_DEADLOCK FALSE
