\* One request at a time on two events; a handler may be cut short.
\* Identifiers run out, so an instance may stop.
SPECIFICATION Spec
CONSTANTS
    None = None
    Event = {e1, e2}
    Type = {k1, k2}
    Ticket = {t1}
    Seat = {x1}
    Avatar = {v1, v2}
    Person = {c1}
    Slot = {s1}
    OwnTypesOnly = TRUE
    Faults = TRUE
    Inputs = {"updateEvent", "previewEvent", "publishEvent", "deleteEvent", "addType", "addTickets", "removeType", "updateTicket", "trade"}
SYMMETRY Symmetry
INVARIANTS
    TypeOK
    MetadataIsCurrent
PROPERTIES
    ActiveIsFrozen
CHECK_DEADLOCK FALSE
