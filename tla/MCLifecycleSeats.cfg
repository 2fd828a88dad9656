\* Two requests in flight on the types and seats of two events; handlers may
\* be cut short.  Identifiers run out, so an instance may stop.
SPECIFICATION Spec
CONSTANTS
    None = None
    Event = {e1, e2}
    Type = {k1, k2}
    Ticket = {t1}
    Seat = {x1}
    Avatar = {}
    Person = {c1}
    Slot = {s1, s2}
    OwnTypesOnly = FALSE
    Faults = TRUE
    Inputs = {"deleteEvent", "staff", "addType", "addTickets", "removeType", "updateTicket", "trade"}
SYMMETRY Symmetry
INVARIANTS
    RowsConnected
    OrdersKeepTickets
    CallsConnected
CHECK_DEADLOCK FALSE
