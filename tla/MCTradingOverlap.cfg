\* Two requests in flight for one ticket and two orders; handlers may be cut short.
\* No customer is deactivated here and no time passes (see MCTradingSerial).
SPECIFICATION Spec
CONSTANTS
    None = None
    Null = Null
    Customer = {c1, c2}
    Staff = {c1, c2}
    Ticket = {t1}
    Order = {o1, o2}
    Slot = {s1, s2}
    Price = {p1}
    Token = {k1, k2}
    OwnOrdersOnly = TRUE
    Faults = TRUE
    Inputs = {"checkout", "pay", "resale", "unlist", "updateOrder", "checkIn", "scan"}
    MaxTimes = 2
    MaxAdmissions = 1
SYMMETRY Symmetry
INVARIANTS
    TypeOK
    CirculationBacked
    CallsBacked
    PaidTicketsAreListed
    OwnerIsLastBuyer
    SellersHadPaid
PROPERTIES
    TokenStaysSettled
    SpentStaysSpent
    PaidOffersEnd
    ImplementsCustody
