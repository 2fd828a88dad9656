--------------------------- MODULE EventLifecycle ---------------------------
(***************************************************************************)
(* The organizer's side of an event: its row from DRAFT over PREVIEW to    *)
(* ACTIVE, its ticket types, seats and staff, and the outside stores it is *)
(* copied to (OrganizerService and SolanaService.createEvent).             *)
(*                                                                         *)
(* One action is one segment between two awaits, as in TicketTrading.      *)
(* Every endpoint first reads the caller's row, then the event's, and      *)
(* refuses a caller who is no active organizer or does not own the event;  *)
(* neither changes here, so a handler enters the model when it has read    *)
(* the event and a refused request is no step at all.                      *)
(***************************************************************************)
EXTENDS Naturals, FiniteSets

CONSTANTS
    Event, Type, Ticket,  \* identifiers rows of these tables may get
    Seat,          \* pairs of row and column number
    Avatar,        \* avatar images
    Person,        \* customers who may become staff
    Slot,          \* requests that may be in flight together
    None,          \* SQL NULL / JavaScript undefined
    OwnTypesOnly,  \* do clients name ticket types of the event they edit?
    Faults,        \* may a handler be cut short (exception or restart)?
    Inputs         \* the requests of an instance

AllInputs ==
    {"updateEvent", "previewEvent", "publishEvent", "deleteEvent", "staff",
     "addType", "addTickets", "removeType", "updateTicket", "trade"}

ASSUME ConstantsAssumption ==
    /\ None \notin Event \cup Type \cup Ticket \cup Seat \cup Avatar
    /\ OwnTypesOnly \in BOOLEAN
    /\ Faults \in BOOLEAN
    /\ Inputs \subseteq AllInputs

VARIABLES
    events,   \* table Event; status "NONE" is no row
    types,    \* table EventTicketType: the event of a type, None is no row
    tickets,  \* table EventTicket; status "NONE" is no row
    staff,    \* table EventStaff
    ordered,  \* tickets that rows of EventTicketOrder refer to
    used,     \* identifiers handed out: uuid() never repeats one
    pinned,   \* avatars uploaded to Pinata, with the event they were for
    chain,    \* metadata of the event account on Solana, None if there is none
    calls     \* the handler running in each slot

rows == <<events, types, tickets, staff, ordered, used>>
vars == <<rows, pinned, chain, calls>>

-----------------------------------------------------------------------------
(* Rows and handler records *)

EventStatus == {"DRAFT", "PREVIEW", "ACTIVE", "DISABLED"}

\* The columns handlers test; ipfs names the avatar the metadata shows.
EventRow ==
    [status : EventStatus \cup {"NONE"}, avatar : Avatar \cup {None},
     symbol : BOOLEAN, ipfs : Avatar \cup {None}, hash : BOOLEAN]

NoEvent ==
    [status |-> "NONE", avatar |-> None, symbol |-> FALSE, ipfs |-> None,
     hash |-> FALSE]

\* Statuses the organizer may give a ticket, and those that mean it was sold.
Unsold == {"NEW", "NOT_EXIST", "NOT_FOR_SALE"}
Circulating == {"SOLD", "RESALE", "USED"}
Taken == Circulating \cup {"LOCK"}

TicketRow ==
    [status : Unsold \cup Taken \cup {"NONE"}, event : Event \cup {None},
     type : Type \cup {None}, seat : Seat \cup {None}]

NoTicket == [status |-> "NONE", event |-> None, type |-> None, seat |-> None]

Pc ==
    {"idle", "update.write", "preview.avatar", "preview.write", "publish.look",
     "publish.rpc", "publish.hash", "publish.active", "delete.check",
     "delete.tickets", "delete.types", "delete.event", "staff.find",
     "staff.create", "type.create", "seats.type", "seats.find", "seats.create",
     "remove.check", "remove.tickets", "remove.type", "edit.ticket",
     "edit.type", "edit.write"}

\* What a handler holds between two awaits; pc names its next statement.
CallRecord ==
    [pc : Pc, event : Event \cup {None}, type : Type \cup {None},
     ticket : Ticket \cup {None}, seat : Seat \cup {None},
     avatar : Avatar \cup {None}, person : Person \cup {None}]

Idle ==
    [pc |-> "idle", event |-> None, type |-> None, ticket |-> None,
     seat |-> None, avatar |-> None, person |-> None]

Init ==
    /\ events = [e \in Event |-> NoEvent]
    /\ types = [k \in Type |-> None]
    /\ tickets = [t \in Ticket |-> NoTicket]
    /\ staff = {}
    /\ ordered = {}
    /\ used = {}
    /\ pinned = {}
    /\ chain = [e \in Event |-> None]
    /\ calls = [s \in Slot |-> Idle]

-----------------------------------------------------------------------------
(* Helpers *)

Begin(s, call) ==
    /\ calls[s] = Idle
    /\ calls' = [calls EXCEPT ![s] = call]
Continue(s, call) == calls' = [calls EXCEPT ![s] = call]
Goto(s, pc) == calls' = [calls EXCEPT ![s].pc = pc]
Return(s) == calls' = [calls EXCEPT ![s] = Idle]

Exists(e) == events[e].status # "NONE"

\* Mutant: the stage is not tested.
EditableAlways(e) == Exists(e)

Editable(e) == events[e].status \in {"DRAFT", "PREVIEW"}

\* What getEventTickets and getEventStaffs answer, and what statements that name
\* the event select.
TicketsOf(e) == {t \in Ticket : tickets[t].event = e}
StaffOf(e) == {p \in Person : <<e, p>> \in staff}

TicketsOfType(k) == {t \in Ticket : tickets[t].type = k}
TypesOf(e) == {k \in Type : types[k] = e}

\* deleteMany: one statement, refused whole when an order refers to a row
\* (foreign key EventTicketOrder.ticketId, ON DELETE RESTRICT).
Deletable(doomed) == doomed \cap ordered = {}
Without(doomed) ==
    [t \in Ticket |-> IF t \in doomed THEN NoTicket ELSE tickets[t]]

-----------------------------------------------------------------------------
(* createEvent, updateEvent *)

\* The only statement after the caller's check: one segment.
CreateEvent(e, v, symbol) ==
    /\ e \notin used
    /\ used' = used \cup {e}
    /\ events' = [events EXCEPT ![e] =
         [status |-> "DRAFT", avatar |-> v, symbol |-> symbol, ipfs |-> None,
          hash |-> FALSE]]
    /\ UNCHANGED <<types, tickets, staff, ordered, pinned, chain, calls>>

UpdateEvent(s, e) ==
    /\ events[e].status = "DRAFT"
    /\ Begin(s, [Idle EXCEPT !.pc = "update.write", !.event = e])
    /\ UNCHANGED <<rows, pinned, chain>>

\* By id alone; a row deleted meanwhile makes the statement throw.  The request
\* names any of the columns (null or "" empties one); nothing depends on what it
\* names before this write, so avatar and symbol are chosen here.
UpdateWrite(s) ==
    LET e == calls[s].event
    IN  /\ calls[s].pc = "update.write"
        /\ \E v \in Avatar \cup {None}, symbol \in BOOLEAN :
             events' = IF Exists(e)
                       THEN [events EXCEPT ![e].avatar = v, ![e].symbol = symbol]
                       ELSE events
        /\ Return(s)
        /\ UNCHANGED <<types, tickets, staff, ordered, used, pinned, chain>>

-----------------------------------------------------------------------------
(* previewEvent: the avatar and the metadata go to Pinata *)

PreviewEvent(s, e) ==
    /\ events[e].status = "DRAFT"
    /\ events[e].avatar # None
    /\ Begin(s, [Idle EXCEPT !.pc = "preview.avatar", !.event = e,
                             !.avatar = events[e].avatar])
    /\ UNCHANGED <<rows, pinned, chain>>

\* Pinata reports an image it already has, and then the handler throws.  The
\* metadata uploaded next names the new image: it is never a duplicate.
PreviewAvatar(s) ==
    LET call == calls[s]
        v    == call.avatar
    IN  /\ call.pc = "preview.avatar"
        /\ \/ /\ \A e \in Event : <<e, v>> \notin pinned
              /\ pinned' = pinned \cup {<<call.event, v>>}
              /\ Goto(s, "preview.write")
           \/ /\ \E e \in Event : <<e, v>> \in pinned
              /\ Return(s)
              /\ UNCHANGED pinned
        /\ UNCHANGED <<rows, chain>>

\* Mutants: the metadata's address is not stored; the result is dropped when
\* the avatar changed meanwhile.
PreviewWriteNoUri(s) ==
    LET e == calls[s].event
    IN  /\ calls[s].pc = "preview.write"
        /\ events' = IF Exists(e) THEN [events EXCEPT ![e].status = "PREVIEW"]
                     ELSE events
        /\ Return(s)
        /\ UNCHANGED <<types, tickets, staff, ordered, used, pinned, chain>>

PreviewWriteIfSame(s) ==
    LET e == calls[s].event
    IN  /\ calls[s].pc = "preview.write"
        /\ events' = IF Exists(e) /\ events[e].avatar = calls[s].avatar
                     THEN [events EXCEPT ![e].status = "PREVIEW",
                                         ![e].ipfs = calls[s].avatar]
                     ELSE events
        /\ Return(s)
        /\ UNCHANGED <<types, tickets, staff, ordered, used, pinned, chain>>

PreviewWrite(s) ==
    LET e == calls[s].event
    IN  /\ calls[s].pc = "preview.write"
        /\ events' = IF Exists(e)
                     THEN [events EXCEPT ![e].status = "PREVIEW",
                                         ![e].ipfs = calls[s].avatar]
                     ELSE events
        /\ Return(s)
        /\ UNCHANGED <<types, tickets, staff, ordered, used, pinned, chain>>

-----------------------------------------------------------------------------
(* publishEvent: the event account on Solana, then two updates of the row *)

Publishable(row) ==
    row.status = "PREVIEW" /\ row.ipfs # None /\ row.symbol

PublishEvent(s, e) ==
    /\ Publishable(events[e])
    /\ Begin(s, [Idle EXCEPT !.pc = "publish.look", !.event = e])
    /\ UNCHANGED <<rows, pinned, chain>>

\* SolanaService.createEvent reads the row again and fails if it is gone.
PublishLook(s) ==
    LET call == calls[s]
    IN  /\ call.pc = "publish.look"
        /\ \/ /\ Exists(call.event)
              /\ Continue(s, [call EXCEPT !.pc = "publish.rpc",
                                !.avatar = events[call.event].ipfs])
           \/ /\ ~Exists(call.event)
              /\ Return(s)
        /\ UNCHANGED <<rows, pinned, chain>>

\* The program creates an account at an address derived from the event's id:
\* a second transaction for the same event fails.
PublishRpc(s) ==
    LET call == calls[s]
        e    == call.event
    IN  /\ call.pc = "publish.rpc"
        /\ \/ /\ chain[e] = None
              /\ chain' = [chain EXCEPT ![e] = call.avatar]
              /\ Goto(s, "publish.hash")
           \/ /\ chain[e] # None
              /\ Return(s)
              /\ UNCHANGED chain
        /\ UNCHANGED <<rows, pinned>>

\* Mutant: the signature is awaited but not stored.
PublishHashSkipped(s) ==
    /\ calls[s].pc = "publish.hash"
    /\ Goto(s, "publish.active")
    /\ UNCHANGED <<rows, pinned, chain>>

PublishHash(s) ==
    LET e == calls[s].event
    IN  /\ calls[s].pc = "publish.hash"
        /\ \/ /\ Exists(e)
              /\ events' = [events EXCEPT ![e].hash = TRUE]
              /\ Goto(s, "publish.active")
           \/ /\ ~Exists(e)
              /\ Return(s)
              /\ UNCHANGED events
        /\ UNCHANGED <<types, tickets, staff, ordered, used, pinned, chain>>

\* Mutant: the stage a published event is shown in, stored as its status.
PublishActiveOnSale(s) ==
    LET e == calls[s].event
    IN  /\ calls[s].pc = "publish.active"
        /\ events' = IF Exists(e) THEN [events EXCEPT ![e].status = "ONSALE"]
                     ELSE events
        /\ Return(s)
        /\ UNCHANGED <<types, tickets, staff, ordered, used, pinned, chain>>

PublishActive(s) ==
    LET e == calls[s].event
    IN  /\ calls[s].pc = "publish.active"
        /\ events' = IF Exists(e) THEN [events EXCEPT ![e].status = "ACTIVE"]
                     ELSE events
        /\ Return(s)
        /\ UNCHANGED <<types, tickets, staff, ordered, used, pinned, chain>>

-----------------------------------------------------------------------------
(* deleteEvent: four statements, no transaction *)

DeleteEvent(s, e) ==
    /\ events[e].status = "DRAFT"
    /\ Begin(s, [Idle EXCEPT !.pc = "delete.check", !.event = e])
    /\ UNCHANGED <<rows, pinned, chain>>

DeleteCheck(s) ==
    LET taken == {t \in TicketsOf(calls[s].event) : tickets[t].status \in Taken}
    IN  /\ calls[s].pc = "delete.check"
        /\ IF taken = {} THEN Goto(s, "delete.tickets") ELSE Return(s)
        /\ UNCHANGED <<rows, pinned, chain>>

DeleteTickets(s) ==
    LET doomed == TicketsOf(calls[s].event)
    IN  /\ calls[s].pc = "delete.tickets"
        /\ \/ /\ Deletable(doomed)
              /\ tickets' = Without(doomed)
              /\ Goto(s, "delete.types")
           \/ /\ ~Deletable(doomed)
              /\ Return(s)
              /\ UNCHANGED tickets
        /\ UNCHANGED <<events, types, staff, ordered, used, pinned, chain>>

\* Refused when a seat was added to one of the types meanwhile.
DeleteTypes(s) ==
    LET doomed == TypesOf(calls[s].event)
    IN  /\ calls[s].pc = "delete.types"
        /\ \/ /\ \A k \in doomed : TicketsOfType(k) = {}
              /\ types' = [k \in Type |-> IF k \in doomed THEN None ELSE types[k]]
              /\ Goto(s, "delete.event")
           \/ /\ \E k \in doomed : TicketsOfType(k) # {}
              /\ Return(s)
              /\ UNCHANGED types
        /\ UNCHANGED <<events, tickets, staff, ordered, used, pinned, chain>>

\* Refused when a ticket, a type or a member of staff refers to the event.
Referenced(e) ==
    TicketsOf(e) # {} \/ TypesOf(e) # {} \/ StaffOf(e) # {}

DeleteEventRow(s) ==
    LET e == calls[s].event
    IN  /\ calls[s].pc = "delete.event"
        /\ events' = IF Referenced(e) THEN events
                     ELSE [events EXCEPT ![e] = NoEvent]
        /\ Return(s)
        /\ UNCHANGED <<types, tickets, staff, ordered, used, pinned, chain>>

-----------------------------------------------------------------------------
(* addEventStaff, removeEventStaff *)

AddEventStaff(s, e, p) ==
    /\ Exists(e)
    /\ Begin(s, [Idle EXCEPT !.pc = "staff.find", !.event = e, !.person = p])
    /\ UNCHANGED <<rows, pinned, chain>>

StaffFind(s) ==
    LET call == calls[s]
    IN  /\ call.pc = "staff.find"
        /\ IF <<call.event, call.person>> \in staff
           THEN Return(s)
           ELSE Goto(s, "staff.create")
        /\ UNCHANGED <<rows, pinned, chain>>

\* A row added meanwhile violates the unique index, a deleted event the
\* foreign key: either way the statement throws and changes nothing.
StaffCreate(s) ==
    LET call == calls[s]
    IN  /\ call.pc = "staff.create"
        /\ staff' = IF Exists(call.event)
                    THEN staff \cup {<<call.event, call.person>>}
                    ELSE staff
        /\ Return(s)
        /\ UNCHANGED <<events, types, tickets, ordered, used, pinned, chain>>

\* An existing row implies an existing event: one statement.
RemoveEventStaff(e, p) ==
    /\ <<e, p>> \in staff
    /\ staff' = staff \ {<<e, p>>}
    /\ UNCHANGED <<events, types, tickets, ordered, used, pinned, chain, calls>>

-----------------------------------------------------------------------------
(* addEventTicketType, addEventTicketTypeWithTickets, removeEventTicketType *)

Unused(ids) == ids \ used
Running(pc) == {s \in Slot : calls[s].pc = pc}

\* Bounded by the type ids left.
AddEventTicketType(s, e) ==
    /\ Editable(e)
    /\ Cardinality(Running("type.create")) < Cardinality(Unused(Type))
    /\ Begin(s, [Idle EXCEPT !.pc = "type.create", !.event = e])
    /\ UNCHANGED <<rows, pinned, chain>>

TypeCreate(s) ==
    LET e == calls[s].event
    IN  /\ calls[s].pc = "type.create"
        /\ \/ /\ Exists(e)
              /\ \E k \in Unused(Type) :
                   /\ types' = [types EXCEPT ![k] = e]
                   /\ used' = used \cup {k}
           \/ /\ ~Exists(e)
              /\ UNCHANGED <<types, used>>
        /\ Return(s)
        /\ UNCHANGED <<events, tickets, staff, ordered, pinned, chain>>

AddEventTicketTypeWithTickets(s, e, k) ==
    /\ Editable(e)
    /\ Begin(s, [Idle EXCEPT !.pc = "seats.type", !.event = e, !.type = k])
    /\ UNCHANGED <<rows, pinned, chain>>

SeatsType(s) ==
    LET call == calls[s]
    IN  /\ call.pc = "seats.type"
        /\ IF types[call.type] = call.event
           THEN Goto(s, "seats.find")
           ELSE Return(s)
        /\ UNCHANGED <<rows, pinned, chain>>

SeatTaken(k, x) == \E t \in TicketsOfType(k) : tickets[t].seat = x

\* The next seat of the request, or its end.  The list is chosen as the loop
\* goes; items with a status outside Unsold are skipped without an await.
\* Bounded by the ticket ids left.
SeatsFind(s) ==
    LET call == calls[s]
    IN  /\ call.pc = "seats.find"
        /\ \/ Return(s)
           \/ \E x \in Seat :
                /\ ~SeatTaken(call.type, x)
                /\ Cardinality(Running("seats.create")) < Cardinality(Unused(Ticket))
                /\ Continue(s, [call EXCEPT !.pc = "seats.create", !.seat = x])
        /\ UNCHANGED <<rows, pinned, chain>>

\* A type deleted meanwhile makes the statement throw.
SeatsCreate(s) ==
    LET call == calls[s]
    IN  /\ call.pc = "seats.create"
        /\ \/ /\ types[call.type] # None
              /\ \E t \in Unused(Ticket), st \in Unsold :
                   /\ tickets' = [tickets EXCEPT ![t] =
                        [status |-> st, event |-> call.event,
                         type |-> call.type, seat |-> call.seat]]
                   /\ used' = used \cup {t}
              /\ Continue(s, [call EXCEPT !.pc = "seats.find", !.seat = None])
           \/ /\ types[call.type] = None
              /\ Return(s)
              /\ UNCHANGED <<tickets, used>>
        /\ UNCHANGED <<events, types, staff, ordered, pinned, chain>>

\* The code does not compare the type's event with e; OwnTypesOnly restricts
\* what clients send.
RemoveEventTicketType(s, e, k) ==
    /\ Editable(e)
    /\ types[k] # None
    /\ OwnTypesOnly => types[k] = e
    /\ Begin(s, [Idle EXCEPT !.pc = "remove.check", !.event = e, !.type = k])
    /\ UNCHANGED <<rows, pinned, chain>>

RemoveCheck(s) ==
    LET taken == {t \in TicketsOfType(calls[s].type) : tickets[t].status \in Taken}
    IN  /\ calls[s].pc = "remove.check"
        /\ IF taken = {} THEN Goto(s, "remove.tickets") ELSE Return(s)
        /\ UNCHANGED <<rows, pinned, chain>>

\* Mutant: orders are deleted along with their tickets (ON DELETE CASCADE).
RemoveTicketsCascading(s) ==
    /\ calls[s].pc = "remove.tickets"
    /\ tickets' = Without(TicketsOfType(calls[s].type))
    /\ Goto(s, "remove.type")
    /\ UNCHANGED <<events, types, staff, ordered, used, pinned, chain>>

RemoveTickets(s) ==
    LET doomed == TicketsOfType(calls[s].type)
    IN  /\ calls[s].pc = "remove.tickets"
        /\ \/ /\ Deletable(doomed)
              /\ tickets' = Without(doomed)
              /\ Goto(s, "remove.type")
           \/ /\ ~Deletable(doomed)
              /\ Return(s)
              /\ UNCHANGED tickets
        /\ UNCHANGED <<events, types, staff, ordered, used, pinned, chain>>

RemoveType(s) ==
    LET k == calls[s].type
    IN  /\ calls[s].pc = "remove.type"
        /\ types' = IF TicketsOfType(k) = {} THEN [types EXCEPT ![k] = None]
                    ELSE types
        /\ Return(s)
        /\ UNCHANGED <<events, tickets, staff, ordered, used, pinned, chain>>

-----------------------------------------------------------------------------
(* updateEventTicket *)

\* k is the type the ticket moves to, None to stay.
UpdateEventTicket(s, e, t, k) ==
    /\ Editable(e)
    /\ Begin(s, [Idle EXCEPT !.pc = "edit.ticket", !.event = e, !.ticket = t,
                             !.type = k])
    /\ UNCHANGED <<rows, pinned, chain>>

\* The ticket's own status is not tested.
EditTicket(s) ==
    LET call == calls[s]
    IN  /\ call.pc = "edit.ticket"
        /\ IF tickets[call.ticket].event # call.event THEN Return(s)
           ELSE IF call.type # None THEN Goto(s, "edit.type")
           ELSE Goto(s, "edit.write")
        /\ UNCHANGED <<rows, pinned, chain>>

\* Mutant: the type's event is not compared.
EditTypeAnyEvent(s) ==
    /\ calls[s].pc = "edit.type"
    /\ IF types[calls[s].type] # None THEN Goto(s, "edit.write") ELSE Return(s)
    /\ UNCHANGED <<rows, pinned, chain>>

EditType(s) ==
    LET call == calls[s]
    IN  /\ call.pc = "edit.type"
        /\ IF types[call.type] = call.event
           THEN Goto(s, "edit.write")
           ELSE Return(s)
        /\ UNCHANGED <<rows, pinned, chain>>

\* By id alone.  A ticket or type deleted meanwhile makes the statement throw.
\* The new status is any the request may carry; name and price are left out.
EditWrite(s) ==
    LET call == calls[s]
        t    == call.ticket
        ok   == /\ tickets[t].status # "NONE"
                /\ call.type # None => types[call.type] # None
    IN  /\ call.pc = "edit.write"
        /\ \/ /\ ok
              /\ \E st \in Unsold :
                   tickets' = [tickets EXCEPT ![t].status = st,
                                 ![t].type = IF call.type = None THEN @
                                             ELSE call.type]
           \/ /\ ~ok
              /\ UNCHANGED tickets
        /\ Return(s)
        /\ UNCHANGED <<events, types, staff, ordered, used, pinned, chain>>

-----------------------------------------------------------------------------
(* What TicketTrading does to these tables *)

\* checkoutTicket creates an order; it tests the ticket's status before its
\* awaits and the event's stage not at all, so the row only has to exist.
PlaceOrder(t) ==
    /\ tickets[t].status # "NONE"
    /\ ordered' = ordered \cup {t}
    /\ UNCHANGED <<events, types, tickets, staff, used, pinned, chain, calls>>

\* updateOrder, resale, unlist and the gate only touch tickets with an order,
\* and update the row by id alone.
Trade(t) ==
    /\ t \in ordered
    /\ \E st \in Circulating : tickets' = [tickets EXCEPT ![t].status = st]
    /\ UNCHANGED <<events, types, staff, ordered, used, pinned, chain, calls>>

\* A query, an upload or an RPC throws, or the process restarts.
Abort(s) ==
    /\ Faults
    /\ calls[s] # Idle
    /\ Return(s)
    /\ UNCHANGED <<rows, pinned, chain>>

-----------------------------------------------------------------------------
(* Specification *)

\* The next segment of the handler in slot s.
Proceed(s) ==
    \/ UpdateWrite(s)
    \/ PreviewAvatar(s) \/ PreviewWrite(s)
    \/ PublishLook(s) \/ PublishRpc(s) \/ PublishHash(s) \/ PublishActive(s)
    \/ DeleteCheck(s) \/ DeleteTickets(s) \/ DeleteTypes(s)
    \/ DeleteEventRow(s)
    \/ StaffFind(s) \/ StaffCreate(s)
    \/ TypeCreate(s) \/ SeatsType(s) \/ SeatsFind(s) \/ SeatsCreate(s)
    \/ RemoveCheck(s) \/ RemoveTickets(s) \/ RemoveType(s)
    \/ EditTicket(s) \/ EditType(s) \/ EditWrite(s)

\* A request passes its checks and occupies slot s.
Arrive(s, e) ==
    \/ /\ "updateEvent" \in Inputs
       /\ UpdateEvent(s, e)
    \/ /\ "previewEvent" \in Inputs
       /\ PreviewEvent(s, e)
    \/ /\ "publishEvent" \in Inputs
       /\ PublishEvent(s, e)
    \/ /\ "deleteEvent" \in Inputs
       /\ DeleteEvent(s, e)
    \/ /\ "staff" \in Inputs
       /\ \E p \in Person : AddEventStaff(s, e, p)
    \/ /\ "addType" \in Inputs
       /\ AddEventTicketType(s, e)
    \/ /\ "addTickets" \in Inputs
       /\ \E k \in Type : AddEventTicketTypeWithTickets(s, e, k)
    \/ /\ "removeType" \in Inputs
       /\ \E k \in Type : RemoveEventTicketType(s, e, k)
    \/ /\ "updateTicket" \in Inputs
       /\ \E t \in Ticket, k \in Type \cup {None} : UpdateEventTicket(s, e, t, k)

\* Requests of a single segment, and trading.
AtOnce ==
    \/ \E e \in Event, v \in Avatar \cup {None}, symbol \in BOOLEAN :
         CreateEvent(e, v, symbol)
    \/ /\ "staff" \in Inputs
       /\ \E e \in Event, p \in Person : RemoveEventStaff(e, p)
    \/ /\ "trade" \in Inputs
       /\ \E t \in Ticket : PlaceOrder(t) \/ Trade(t)

Next ==
    \/ AtOnce
    \/ \E s \in Slot : Proceed(s) \/ Abort(s) \/ \E e \in Event : Arrive(s, e)

Spec == Init /\ [][Next]_vars

\* The event loop resumes every handler whose statement or RPC has answered.
FairSpec == Spec /\ \A s \in Slot : WF_vars(Proceed(s))

-----------------------------------------------------------------------------
(* Properties *)

\* Every row and handler record has its type.
TypeOK ==
    /\ events \in [Event -> EventRow]
    /\ types \in [Type -> Event \cup {None}]
    /\ tickets \in [Ticket -> TicketRow]
    /\ staff \subseteq Event \X Person
    /\ ordered \subseteq Ticket
    /\ used \subseteq Event \cup Type \cup Ticket
    /\ pinned \subseteq Event \X Avatar
    /\ chain \in [Event -> Avatar \cup {None}]
    /\ calls \in [Slot -> CallRecord]

\* Every seat belongs to the event of its ticket type, and types, seats and
\* staff belong to events that exist, however adding, moving and deleting
\* overlap or stop halfway: the code checks a type's event once, before awaits.
RowsConnected ==
    /\ \A t \in Ticket :
         tickets[t].status # "NONE" =>
             /\ tickets[t].type \in Type
             /\ tickets[t].event \in Event
             /\ types[tickets[t].type] = tickets[t].event
    /\ \A k \in Type : types[k] # None => Exists(types[k])
    /\ \A p \in Event \X Person : p \in staff => Exists(p[1])

\* What a handler checked before an await and relies on afterwards is still so,
\* or the row is gone for good and the statement will throw: the type it adds
\* seats to, the ticket and the type it moves it to belong to its event; an
\* event it publishes left DRAFT, has an account once the RPC answered and the
\* account's transaction once that was stored.
CallConnected(call) ==
    LET e == call.event
    IN  /\ call.pc # "idle" => e \in Event \cap used
        /\ call.pc \in {"preview.avatar", "preview.write", "publish.rpc"} =>
             call.avatar \in Avatar
        /\ call.pc \in {"publish.look", "publish.rpc", "publish.hash",
             "publish.active"} =>
             events[e].status \in {"PREVIEW", "ACTIVE", "NONE"}
        /\ call.pc \in {"publish.hash", "publish.active"} => chain[e] # None
        /\ call.pc = "publish.active" => events[e].hash \/ ~Exists(e)
        /\ call.pc \in {"seats.find", "seats.create"} =>
             call.type \in Type \cap used /\ types[call.type] \in {e, None}
        /\ call.pc \in {"edit.type", "edit.write"} =>
             call.ticket \in Ticket \cap used
             /\ tickets[call.ticket].event \in {e, None}
        /\ call.pc = "edit.write" /\ call.type # None =>
             call.type \in Type \cap used /\ types[call.type] \in {e, None}

CallsConnected == \A s \in Slot : CallConnected(calls[s])

\* A ticket somebody ordered is never deleted, although the check for sold
\* tickets looks at statuses only and runs before the deletion.
OrdersKeepTickets == \A t \in ordered : tickets[t].status # "NONE"

\* An event on sale has its metadata's address, its account on Solana and the
\* transaction that created it, whatever overlapped with publishing it.
ActiveIsBacked ==
    \A e \in Event :
        events[e].status = "ACTIVE" =>
            events[e].ipfs # None /\ events[e].hash /\ chain[e] # None

\* The handler is about to store the result of uploading v for e.
Storing(call, e, v) ==
    call.pc = "preview.write" /\ call.event = e /\ call.avatar = v

\* Image v was uploaded for e, which is a DRAFT, and nobody is there to store the
\* result: a retry with the same image is refused as a duplicate of itself.
LockedOut(e, v) ==
    /\ <<e, v>> \in pinned
    /\ events[e].status = "DRAFT"
    /\ ~\E s \in Slot : Storing(calls[s], e, v)

\* Only a handler cut short between the upload and its write leaves an image
\* stranded: overlapping updates, previews and deletions never do, also when the
\* avatar is replaced meanwhile and later brought back.  (Nothing is said of an
\* image uploaded for another event, or for one that was deleted: the check
\* refuses it for good.)
OnlyFaultsStrandImages ==
    [][\A e \in Event, v \in Avatar :
         LockedOut(e, v)' =>
            \/ LockedOut(e, v)
            \/ Faults /\ \E s \in Slot : Storing(calls[s], e, v) /\ calls'[s] = Idle]_vars

\* Without faults an event account on Solana ends up recorded in its event's
\* row, unless the row is deleted.
AccountGetsRecorded ==
    \A e \in Event : chain[e] # None ~> events[e].hash \/ ~Exists(e)

\* As long as requests do not overlap, what buyers and the chain see of a
\* previewed event is what its row says.
MetadataIsCurrent ==
    \A e \in Event :
        events[e].status \in {"PREVIEW", "ACTIVE"} =>
            /\ events[e].ipfs = events[e].avatar
            /\ chain[e] \in {None, events[e].ipfs}

\* As long as requests do not overlap and name types of the event they edit,
\* an event on sale stays on sale and only trading changes its tickets.
ActiveIsFrozen ==
    [][\A e \in Event :
         events[e].status = "ACTIVE" =>
             /\ events'[e] = events[e]
             /\ TypesOf(e)' = TypesOf(e)
             /\ TicketsOf(e)' = TicketsOf(e)
             /\ \A t \in TicketsOf(e) :
                  \/ tickets'[t] = tickets[t]
                  \/ tickets'[t].status \in Circulating]_vars

-----------------------------------------------------------------------------
(* What comments say of the program; see the README *)

\* "Check the coordinates; if there is a ticket at the same ones, ignore":
\* no type has two tickets at one seat.
SeatsDistinct ==
    \A t, u \in Ticket :
        /\ tickets[t].status # "NONE"
        /\ tickets[u].status # "NONE"
        /\ tickets[t].type = tickets[u].type
        /\ tickets[t].seat = tickets[u].seat
        => t = u

\* "Only tickets in these 3 states may be modified, and only to these 3
\* states": a ticket sold, on resale or used does not become unsold.
OnlyUnsoldEdited ==
    [][\A t \in Ticket :
         tickets[t].status \in Circulating => tickets'[t].status \notin Unsold]_vars

=============================================================================
