\* A token that is older than the last transfer.
CONSTANTS
    Tenants = {t1}
    Users = {u1, u2, u3}
    Emails = {u1, u2, u3}
    EmailOf <- Own
    Seats = {1, 3}
    FreeSeats = 1
    MaxRequests = 1
    MaxTokens = 2
SPECIFICATION Spec
INVARIANTS ExactlyOneOwner
