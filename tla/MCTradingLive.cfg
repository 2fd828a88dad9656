\* Two overlapping requests and no faults: is every payment settled?
\* Without time or scans the system stops once the bounds are reached.
SPECIFICATION FairSpec
CONSTANTS
    None = None
    Null = Null
    Customer = {c1, c2}
    Staff = {}
    Ticket = {t1}
    Order = {o1, o2}
    Slot = {s1, s2}
    Price = {p1}
    Token = {k1}
    OwnOrdersOnly = TRUE
    Faults = FALSE
    Inputs = {"checkout", "pay", "resale", "unlist", "updateOrder"}
    MaxTimes = 2
    MaxAdmissions = 0
INVARIANTS
    PaidIsInFlight
PROPERTIES
    PaidGetsTransfered
