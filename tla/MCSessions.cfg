\* A request in flight while two users, a role and their names change; a
\* refresh token lives twice as long as an access token.
SPECIFICATION FairSpec
CONSTANTS
    None = None
    User = {u1, u2}
    Role = {r1}
    Name = {n1, n2}
    Slot = {s1}
    AccessLife = 1
    RefreshLife = 2
    Faults = TRUE
INVARIANTS
    TypeOK
    VerdictsAreRecent
    UsernamesUnique
PROPERTIES
    DeletedSessionsEnd
CHECK_DEADLOCK FALSE
