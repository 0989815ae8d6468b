\* A user, a verification link and reset links, two requests at a time.
CONSTANTS
    Users = {u1}
    Passwords = {p1}
    Tokens = {1, 2, 3}
    Requests = {r1, r2}
    MaxFaults = 1
SPECIFICATION FairSpec
INVARIANTS TokensAreSingleUse LinksDieOnlyWithThePassword OldLinksAreDead SpentLinksVerify
PROPERTIES RequestsEnd
CHECK_DEADLOCK FALSE
