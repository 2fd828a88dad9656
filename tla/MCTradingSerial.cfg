\* One request at a time, with deactivated customers, expired codes and the
\* event's end.
SPECIFICATION Spec
CONSTANTS
    None = None
    Null = Null
    Customer = {c1, c2}
    Staff = {c1, c2}
    Ticket = {t1}
    Order = {o1, o2}
    Slot = {s1}
    Price = {p1}
    Token = {}
    OwnOrdersOnly = FALSE
    Faults = TRUE
    Inputs = {"checkout", "pay", "resale", "unlist", "updateOrder", "checkIn", "scan", "updateCustomer", "time"}
    MaxTimes = 2
    MaxAdmissions = 2
SYMMETRY Symmetry
INVARIANTS
    AdmissionsBacked
