\* One organizer request at a time, and trading.
SPECIFICATION Spec
CONSTANTS
    None = None
    Event = {e1}
    Type = {k1}
    Ticket = {t1}
    Seat = {x1}
    Avatar = {v1}
    Person = {c1}
    Slot = {s1}
    OwnTypesOnly = TRUE
    Faults = FALSE
    Inputs = {"previewEvent", "addType", "addTickets", "updateTicket", "trade"}
PROPERTY OnlyUnsoldEdited
CHECK_DEADLOCK FALSE
