\* Two requests in flight for two events that use the same images; every
\* handler runs to its end.  Identifiers run out, so an instance may stop.
SPECIFICATION FairSpec
CONSTANTS
    None = None
    Event = {e1, e2}
    Type = {}
    Ticket = {}
    Seat = {}
    Avatar = {v1, v2}
    Person = {c1}
    Slot = {s1, s2}
    OwnTypesOnly = TRUE
    Faults = FALSE
    Inputs = {"updateEvent", "previewEvent", "publishEvent", "deleteEvent"}
INVARIANTS
    ActiveIsBacked
PROPERTIES
    OnlyFaultsStrandImages
    AccountGetsRecorded
CHECK_DEADLOCK FALSE
