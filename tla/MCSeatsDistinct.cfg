\* Two requests add seats to one type at a time.
SPECIFICATION Spec
CONSTANTS
    None = None
    Event = {e1}
    Type = {k1}
    Ticket = {t1, t2}
    Seat = {x1}
    Avatar = {v1}
    Person = {c1}
    Slot = {s1, s2}
    OwnTypesOnly = TRUE
    Faults = FALSE
    Inputs = {"addType", "addTickets"}
INVARIANT SeatsDistinct
CHECK_DEADLOCK FALSE
