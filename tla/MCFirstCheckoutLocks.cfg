\* Two buyers check out one ticket, one after the other.
SPECIFICATION Spec
CONSTANTS
    None = None
    Null = Null
    Customer = {c1, c2}
    Staff = {c1, c2}
    Ticket = {t1}
    Order = {o1, o2}
    Slot = {s1}
    Price = {p1, p2}
    Token = {}
    OwnOrdersOnly = TRUE
    Faults = FALSE
    Inputs = {"checkout", "pay", "resale", "unlist", "updateOrder", "checkIn", "scan"}
    MaxTimes = 2
    MaxAdmissions = 3
SYMMETRY Symmetry
INVARIANTS
    FirstCheckoutLocks
