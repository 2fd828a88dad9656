\* Two requests in flight over the accounts of two people, cut short anywhere.
SPECIFICATION FairSpec
CONSTANTS
    None = None
    p1 = p1
    p2 = p2
    e2 = e2
    Account = {a1, a2, a3}
    Email = {e1, e2}
    Wallet = {w1}
    Person = {p1, p2}
    HolderOf <- Holder
    Terms = {x0, x1}
    x0 = x0
    DefaultTerms = x0
    Changes <- Requests
    Slot = {s1, s2}
    Faults = TRUE
INVARIANTS
    TypeOK
    OwnAccount
    OneAccountPerEmail
PROPERTIES
    RightsHold
    LoginFindsAccount
CHECK_DEADLOCK FALSE
