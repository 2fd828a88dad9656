--------------------- MODULE EventLifecycleSerialProofs ---------------------
(***************************************************************************)
(* Proofs about EventLifecycle when the organizer's requests do not        *)
(* overlap: what buyers and the chain see of an event is its row, and an   *)
(* event on sale is frozen.  Trading goes on meanwhile, requests may be    *)
(* cut short anywhere, and there may be any number of rows.                *)
(***************************************************************************)
EXTENDS EventLifecycleProofs

\* At most one request is in flight.
Serial == \A r, s \in Slot : r = s

OnDraft ==
    {"update.write", "preview.avatar", "preview.write", "delete.check",
     "delete.tickets", "delete.types", "delete.event"}
OnPreview == {"publish.look", "publish.rpc", "publish.hash", "publish.active"}
Removing == {"remove.check", "remove.tickets", "remove.type"}
OnEditable ==
    Removing \cup
    {"type.create", "seats.type", "seats.find", "seats.create", "edit.ticket",
     "edit.type", "edit.write"}

\* What the handler read when it arrived, or did to the chain, is still so, with
\* the tables as parameters.  Of overlapping requests only CallConnected holds.
Fresh(c, ev, ty, ch) ==
    c.pc # "idle" =>
        /\ c.pc \in OnDraft => ev[c.event].status = "DRAFT"
        /\ c.pc \in {"preview.avatar", "preview.write"} =>
             c.avatar = ev[c.event].avatar
        /\ c.pc \in OnPreview => ev[c.event].status = "PREVIEW"
        /\ c.pc = "publish.rpc" => c.avatar = ev[c.event].ipfs
        /\ c.pc \in {"publish.hash", "publish.active"} =>
             ch[c.event] = ev[c.event].ipfs
        /\ c.pc \in OnEditable => ev[c.event].status \in {"DRAFT", "PREVIEW"}
        /\ OwnTypesOnly /\ c.pc \in Removing => ty[c.type] = c.event

CallsFresh == \A s \in Slot : Fresh(calls[s], events, types, chain)

\* An event that was not published yet has no account.
DraftsOffChain ==
    \A e \in Event :
        events[e].status = "DRAFT" \/ e \notin used => chain[e] = None

SInv == IInv /\ MetadataIsCurrent /\ DraftsOffChain /\ CallsFresh

LEMMA IdleIsFresh == \A ev, ty, ch : Fresh(Idle, ev, ty, ch)
BY DEF Idle, Fresh

\* With a single slot one record decides.
LEMMA LoneCall ==
    ASSUME Serial, calls \in [Slot -> CallRecord], NEW s \in Slot, NEW c,
           Continue(s, c), Fresh(c, events', types', chain')
    PROVE  CallsFresh'
BY DEF Serial, Continue, CallsFresh

LEMMA LoneReturn ==
    ASSUME Serial, calls \in [Slot -> CallRecord], NEW s \in Slot, Return(s)
    PROVE  CallsFresh'
BY LoneCall, IdleIsFresh DEF Return, Continue

\* Where the properties of a row and its account come from when one event's row
\* or account is written.
LEMMA OneEventWritten ==
    ASSUME MetadataIsCurrent, DraftsOffChain, NEW e \in Event, NEW row \in EventRow,
           NEW v, events \in [Event -> EventRow], chain \in [Event -> Avatar \cup {None}],
           events' = [events EXCEPT ![e] = row], chain' = [chain EXCEPT ![e] = v],
           used \subseteq used', e \in used',
           row.status \in {"PREVIEW", "ACTIVE"} =>
               row.ipfs = row.avatar /\ v \in {None, row.ipfs},
           row.status = "DRAFT" => v = None
    PROVE  MetadataIsCurrent' /\ DraftsOffChain'
BY DEF MetadataIsCurrent, DraftsOffChain

-----------------------------------------------------------------------------
(* Every step keeps what the lone request read *)

\* Requests read the event last, and so start with what its row says.
LEMMA ArriveFresh ==
    ASSUME SInv, Serial, NEW s \in Slot, NEW e \in Event, Arrive(s, e)
    PROVE  CallsFresh'
<1> DEFINE Started(c) == Begin(s, c) /\ Fresh(c, events, types, chain)
<1>1. /\ UNCHANGED <<rows, pinned, chain>>
      /\ events \in [Event -> EventRow] /\ calls \in [Slot -> CallRecord]
  BY Zenon
     DEF Arrive, UpdateEvent, PreviewEvent, PublishEvent, DeleteEvent, AddEventStaff,
         AddEventTicketType, AddEventTicketTypeWithTickets, RemoveEventTicketType,
         UpdateEventTicket, SInv, IInv, RowsInv, RowsTyped
<1> USE DEF Idle, Fresh, OnDraft, OnPreview, OnEditable, Removing
<1>2. ASSUME UpdateEvent(s, e)
      PROVE  Started([Idle EXCEPT !.pc = "update.write", !.event = e])
  BY <1>2 DEF UpdateEvent
<1>3. ASSUME PreviewEvent(s, e)
      PROVE  Started([Idle EXCEPT !.pc = "preview.avatar", !.event = e,
                                  !.avatar = events[e].avatar])
  BY <1>3 DEF PreviewEvent
<1>4. ASSUME PublishEvent(s, e)
      PROVE  Started([Idle EXCEPT !.pc = "publish.look", !.event = e])
  BY <1>4 DEF PublishEvent, Publishable
<1>5. ASSUME DeleteEvent(s, e)
      PROVE  Started([Idle EXCEPT !.pc = "delete.check", !.event = e])
  BY <1>5 DEF DeleteEvent
<1>6. ASSUME NEW p \in Person, AddEventStaff(s, e, p)
      PROVE  Started([Idle EXCEPT !.pc = "staff.find", !.event = e, !.person = p])
  BY <1>6 DEF AddEventStaff
<1>7. ASSUME AddEventTicketType(s, e)
      PROVE  Started([Idle EXCEPT !.pc = "type.create", !.event = e])
  BY <1>7 DEF AddEventTicketType, Editable
<1>8. ASSUME NEW k \in Type, AddEventTicketTypeWithTickets(s, e, k)
      PROVE  Started([Idle EXCEPT !.pc = "seats.type", !.event = e, !.type = k])
  BY <1>8 DEF AddEventTicketTypeWithTickets, Editable
<1>9. ASSUME NEW k \in Type, RemoveEventTicketType(s, e, k)
      PROVE  Started([Idle EXCEPT !.pc = "remove.check", !.event = e, !.type = k])
  BY <1>9 DEF RemoveEventTicketType, Editable
<1>10. ASSUME NEW t \in Ticket, NEW k \in Type \cup {None},
              UpdateEventTicket(s, e, t, k)
       PROVE  Started([Idle EXCEPT !.pc = "edit.ticket", !.event = e, !.ticket = t,
                                   !.type = k])
  BY <1>10 DEF UpdateEventTicket, Editable
<1>11. ASSUME NEW c, Started(c) PROVE CallsFresh'
  <2>1. Continue(s, c) /\ Fresh(c, events', types', chain')
    BY <1>1, <1>11, Zenon DEF Begin, Continue, rows
  <2> QED
    BY <1>1, <2>1, LoneCall
<1> HIDE DEF Started
<1> QED
  BY <1>2, <1>3, <1>4, <1>5, <1>6, <1>7, <1>8, <1>9, <1>10, <1>11, Zenon DEF Arrive

\* Segments that leave events, types and the chain alone.
Quiet(s) ==
    \/ PreviewAvatar(s) \/ PublishLook(s) \/ DeleteCheck(s) \/ DeleteTickets(s)
    \/ StaffFind(s) \/ StaffCreate(s) \/ SeatsType(s) \/ SeatsFind(s) \/ SeatsCreate(s)
    \/ RemoveCheck(s) \/ RemoveTickets(s)
    \/ EditTicket(s) \/ EditType(s) \/ EditWrite(s) \/ Abort(s)

\* They go on with a record these rows agree with.
LEMMA QuietFresh ==
    ASSUME SInv, Serial, NEW s \in Slot, Quiet(s)
    PROVE  CallsFresh' /\ UNCHANGED <<events, types, chain>>
<1> DEFINE c == calls[s]
<1>1. /\ calls \in [Slot -> CallRecord] /\ c \in CallRecord
      /\ Fresh(c, events, types, chain)
  BY DEF SInv, IInv, CallsFresh
<1>2. UNCHANGED <<events, types, chain>>
  BY Zenon
     DEF Quiet, PreviewAvatar, PublishLook, DeleteCheck, DeleteTickets, StaffFind,
         StaffCreate, SeatsType, SeatsFind, SeatsCreate, RemoveCheck, RemoveTickets,
         EditTicket, EditType, EditWrite, Abort, rows
<1> SUFFICES CallsFresh'
  BY <1>2
<1>3. ASSUME NEW d, Continue(s, d), Fresh(d, events, types, chain) PROVE CallsFresh'
  BY <1>1, <1>2, <1>3, LoneCall
<1>4. ASSUME NEW pc, Goto(s, pc) \/ Return(s),
             Fresh([c EXCEPT !.pc = pc], events, types, chain)
      PROVE  CallsFresh'
  <2>1. Goto(s, pc) => Continue(s, [c EXCEPT !.pc = pc])
    BY <1>1 DEF Goto, Continue, CallRecord
  <2> QED
    BY <1>1, <1>3, <1>4, <2>1, LoneReturn
<1>5. CASE StaffCreate(s) \/ EditWrite(s) \/ Abort(s)
  BY <1>1, <1>5, LoneReturn DEF StaffCreate, EditWrite, Abort
<1>6. CASE PublishLook(s)
  <2> DEFINE d == [c EXCEPT !.pc = "publish.rpc", !.avatar = events[c.event].ipfs]
  <2>1. Fresh(d, events, types, chain)
    BY <1>1, <1>6
       DEF PublishLook, Fresh, CallRecord, OnDraft, OnPreview, OnEditable, Removing
  <2>2. Continue(s, d) \/ Return(s)
    BY <1>6 DEF PublishLook
  <2> HIDE DEF d
  <2> QED
    BY <1>1, <1>3, <2>1, <2>2, LoneReturn
<1>7. CASE SeatsFind(s)
  <2>1. ASSUME NEW x \in Seat,
               Continue(s, [c EXCEPT !.pc = "seats.create", !.seat = x])
        PROVE  CallsFresh'
    <3>1. Fresh([c EXCEPT !.pc = "seats.create", !.seat = x], events, types, chain)
      BY <1>1, <1>7
         DEF SeatsFind, Fresh, CallRecord, OnDraft, OnPreview, OnEditable, Removing
    <3> QED
      BY <1>3, <2>1, <3>1
  <2> QED
    BY <1>1, <1>7, <2>1, LoneReturn DEF SeatsFind
<1>8. CASE SeatsCreate(s)
  <2> DEFINE d == [c EXCEPT !.pc = "seats.find", !.seat = None]
  <2>1. Fresh(d, events, types, chain)
    BY <1>1, <1>8
       DEF SeatsCreate, Fresh, CallRecord, OnDraft, OnPreview, OnEditable, Removing
  <2>2. Continue(s, d) \/ Return(s)
    BY <1>8 DEF SeatsCreate
  <2> HIDE DEF d
  <2> QED
    BY <1>1, <1>3, <2>1, <2>2, LoneReturn
<1>9. ASSUME NEW pc,
             \/ PreviewAvatar(s) /\ pc = "preview.write"
             \/ DeleteCheck(s) /\ pc = "delete.tickets"
             \/ DeleteTickets(s) /\ pc = "delete.types"
             \/ StaffFind(s) /\ pc = "staff.create"
             \/ SeatsType(s) /\ pc = "seats.find"
             \/ RemoveCheck(s) /\ pc = "remove.tickets"
             \/ RemoveTickets(s) /\ pc = "remove.type"
             \/ EditTicket(s) /\ pc \in {"edit.type", "edit.write"}
             \/ EditType(s) /\ pc = "edit.write"
      PROVE  Fresh([c EXCEPT !.pc = pc], events, types, chain)
  BY <1>1, <1>9
     DEF PreviewAvatar, DeleteCheck, DeleteTickets, StaffFind, SeatsType, RemoveCheck,
         RemoveTickets, EditTicket, EditType, Fresh, CallRecord, OnDraft, OnPreview,
         OnEditable, Removing
<1>10. CASE PreviewAvatar(s)
  BY <1>4, <1>9, <1>10 DEF PreviewAvatar
<1>11. CASE DeleteCheck(s)
  BY <1>4, <1>9, <1>11 DEF DeleteCheck
<1>12. CASE DeleteTickets(s)
  BY <1>4, <1>9, <1>12 DEF DeleteTickets
<1>13. CASE StaffFind(s)
  BY <1>4, <1>9, <1>13 DEF StaffFind
<1>14. CASE SeatsType(s)
  BY <1>4, <1>9, <1>14 DEF SeatsType
<1>15. CASE RemoveCheck(s)
  BY <1>4, <1>9, <1>15 DEF RemoveCheck
<1>16. CASE RemoveTickets(s)
  BY <1>4, <1>9, <1>16 DEF RemoveTickets
<1>17. CASE EditTicket(s)
  BY <1>4, <1>9, <1>17 DEF EditTicket
<1>18. CASE EditType(s)
  BY <1>4, <1>9, <1>18 DEF EditType
<1> QED
  BY <1>2, <1>5, <1>6, <1>7, <1>8, <1>10, <1>11, <1>12, <1>13, <1>14, <1>15, <1>16,
     <1>17, <1>18, Zenon DEF Quiet

-----------------------------------------------------------------------------
(* Every step keeps what is said of an event and its account *)

\* The handler in slot s, its event and what it read of it.
LEMMA Lone ==
    ASSUME SInv, NEW s \in Slot, calls[s].pc # "idle"
    PROVE  /\ calls \in [Slot -> CallRecord] /\ calls[s] \in CallRecord
           /\ calls[s].event \in Event \cap used
           /\ Fresh(calls[s], events, types, chain)
           /\ events \in [Event -> EventRow] /\ events[calls[s].event] \in EventRow
           /\ chain \in [Event -> Avatar \cup {None}]
BY DEF SInv, IInv, RowsInv, RowsTyped, CallsFresh, CallsConnected, CallConnected

\* updateEvent and previewEvent write a DRAFT, which has no account.
LEMMA DraftWritten ==
    ASSUME SInv, Serial, NEW s \in Slot, UpdateWrite(s) \/ PreviewWrite(s)
    PROVE  MetadataIsCurrent' /\ DraftsOffChain' /\ CallsFresh'
<1> DEFINE e == calls[s].event
           row == events[e]
<1>1. /\ calls[s].pc \in {"update.write", "preview.write"} /\ Return(s)
      /\ UNCHANGED <<types, used, chain>>
  BY DEF UpdateWrite, PreviewWrite
<1>2. /\ calls \in [Slot -> CallRecord] /\ calls[s] \in CallRecord
      /\ e \in Event \cap used /\ Fresh(calls[s], events, types, chain)
      /\ events \in [Event -> EventRow] /\ row \in EventRow
      /\ chain \in [Event -> Avatar \cup {None}]
  BY <1>1, Lone
<1>3. row.status = "DRAFT" /\ chain[e] = None
  BY <1>1, <1>2 DEF Fresh, OnDraft, SInv, DraftsOffChain
<1>4. PICK new \in EventRow :
        /\ events' = [events EXCEPT ![e] = new]
        /\ \/ new.status = "DRAFT"
           \/ new.status = "PREVIEW" /\ new.ipfs = new.avatar
  <2>1. CASE UpdateWrite(s)
    <3> PICK v \in Avatar \cup {None}, b \in BOOLEAN :
          events' = [events EXCEPT ![e].avatar = v, ![e].symbol = b]
      BY <1>2, <1>3, <2>1 DEF UpdateWrite, Exists, EventRow
    <3> DEFINE new == [row EXCEPT !.avatar = v, !.symbol = b]
    <3>1. new \in EventRow /\ new.status = "DRAFT"
      BY <1>2, <1>3 DEF EventRow
    <3>2. events' = [events EXCEPT ![e] = new]
      BY <1>2
    <3> QED
      BY <3>1, <3>2
  <2>3. CASE PreviewWrite(s)
    <3> DEFINE new == [row EXCEPT !.status = "PREVIEW", !.ipfs = calls[s].avatar]
    <3>1. calls[s].avatar = row.avatar
      BY <1>2, <2>3 DEF PreviewWrite, Fresh
    <3>2. new \in EventRow /\ new.status = "PREVIEW" /\ new.ipfs = new.avatar
      BY <1>2, <3>1 DEF EventRow, EventStatus
    <3>3. events' = [events EXCEPT ![e] = new]
      BY <1>2, <1>3, <2>3 DEF PreviewWrite, Exists, EventRow
    <3> QED
      BY <3>2, <3>3
  <2> QED
    BY <2>1, <2>3
<1>5. chain' = [chain EXCEPT ![e] = None]
  BY <1>1, <1>2, <1>3
<1> HIDE DEF row
<1>6. MetadataIsCurrent' /\ DraftsOffChain'
  BY <1>1, <1>2, <1>4, <1>5, OneEventWritten DEF SInv
<1> QED
  BY <1>1, <1>2, <1>6, LoneReturn

\* The account shows what the row shows: nothing came in between.
LEMMA PublishRpcFresh ==
    ASSUME SInv, Serial, NEW s \in Slot, PublishRpc(s)
    PROVE  MetadataIsCurrent' /\ DraftsOffChain' /\ CallsFresh'
<1> DEFINE e == calls[s].event
           row == events[e]
<1>1. calls[s].pc = "publish.rpc" /\ UNCHANGED rows
  BY DEF PublishRpc
<1>2. /\ calls \in [Slot -> CallRecord] /\ calls[s] \in CallRecord
      /\ e \in Event \cap used /\ Fresh(calls[s], events, types, chain)
      /\ events \in [Event -> EventRow] /\ row \in EventRow
      /\ chain \in [Event -> Avatar \cup {None}]
  BY <1>1, Lone
<1>3. row.status = "PREVIEW" /\ calls[s].avatar = row.ipfs /\ row.ipfs = row.avatar
  BY <1>1, <1>2 DEF Fresh, OnPreview, SInv, MetadataIsCurrent
<1>4. CASE chain[e] = None
  <2> DEFINE c == [calls[s] EXCEPT !.pc = "publish.hash"]
  <2>1. chain' = [chain EXCEPT ![e] = row.ipfs] /\ events' = [events EXCEPT ![e] = row]
    BY <1>1, <1>2, <1>3, <1>4 DEF PublishRpc, rows
  <2>2. Continue(s, c)
    BY <1>2, <1>4 DEF PublishRpc, Goto, Continue, CallRecord
  <2>3. Fresh(c, events', types', chain')
    BY <1>1, <1>2, <1>3, <2>1
       DEF Fresh, CallRecord, OnDraft, OnPreview, OnEditable, Removing, rows
  <2> HIDE DEF c, row
  <2>4. MetadataIsCurrent' /\ DraftsOffChain'
    BY <1>1, <1>2, <1>3, <2>1, OneEventWritten DEF SInv, rows
  <2> QED
    BY <1>2, <2>2, <2>3, <2>4, LoneCall
<1>5. CASE chain[e] # None
  BY <1>1, <1>2, <1>5, LoneReturn
     DEF PublishRpc, SInv, MetadataIsCurrent, DraftsOffChain, rows
<1> QED
  BY <1>4, <1>5

LEMMA PublishHashFresh ==
    ASSUME SInv, Serial, NEW s \in Slot, PublishHash(s)
    PROVE  MetadataIsCurrent' /\ DraftsOffChain' /\ CallsFresh'
<1> DEFINE e == calls[s].event
           row == events[e]
           new == [row EXCEPT !.hash = TRUE]
           c == [calls[s] EXCEPT !.pc = "publish.active"]
<1>1. calls[s].pc = "publish.hash" /\ UNCHANGED <<types, used, chain>>
  BY DEF PublishHash
<1>2. /\ calls \in [Slot -> CallRecord] /\ calls[s] \in CallRecord
      /\ e \in Event \cap used /\ Fresh(calls[s], events, types, chain)
      /\ events \in [Event -> EventRow] /\ row \in EventRow
      /\ chain \in [Event -> Avatar \cup {None}]
  BY <1>1, Lone
<1>3. row.status = "PREVIEW" /\ chain[e] = row.ipfs /\ row.ipfs = row.avatar
  BY <1>1, <1>2 DEF Fresh, OnPreview, SInv, MetadataIsCurrent
<1>4. /\ new \in EventRow /\ new.status = "PREVIEW"
      /\ new.ipfs = row.ipfs /\ new.avatar = row.avatar
  BY <1>2, <1>3 DEF EventRow
<1>5. /\ events' = [events EXCEPT ![e] = new] /\ Continue(s, c)
      /\ chain' = [chain EXCEPT ![e] = row.ipfs]
  BY <1>1, <1>2, <1>3 DEF PublishHash, Exists, Goto, Continue, EventRow, CallRecord
<1>6. Fresh(c, events', types', chain')
  BY <1>1, <1>2, <1>3, <1>4, <1>5
     DEF Fresh, CallRecord, OnDraft, OnPreview, OnEditable, Removing
<1> HIDE DEF c, row, new
<1>7. MetadataIsCurrent' /\ DraftsOffChain'
  BY <1>1, <1>2, <1>3, <1>4, <1>5, OneEventWritten DEF SInv
<1> QED
  BY <1>2, <1>5, <1>6, <1>7, LoneCall

LEMMA PublishActiveFresh ==
    ASSUME SInv, Serial, NEW s \in Slot, PublishActive(s)
    PROVE  MetadataIsCurrent' /\ DraftsOffChain' /\ CallsFresh'
<1> DEFINE e == calls[s].event
           row == events[e]
           new == [row EXCEPT !.status = "ACTIVE"]
<1>1. /\ calls[s].pc = "publish.active" /\ Return(s)
      /\ UNCHANGED <<types, used, chain>>
  BY DEF PublishActive
<1>2. /\ calls \in [Slot -> CallRecord] /\ calls[s] \in CallRecord
      /\ e \in Event \cap used /\ Fresh(calls[s], events, types, chain)
      /\ events \in [Event -> EventRow] /\ row \in EventRow
      /\ chain \in [Event -> Avatar \cup {None}]
  BY <1>1, Lone
<1>3. row.status = "PREVIEW" /\ chain[e] = row.ipfs /\ row.ipfs = row.avatar
  BY <1>1, <1>2 DEF Fresh, OnPreview, SInv, MetadataIsCurrent
<1>4. /\ new \in EventRow /\ new.status = "ACTIVE"
      /\ new.ipfs = row.ipfs /\ new.avatar = row.avatar
  BY <1>2, <1>3 DEF EventRow, EventStatus
<1>5. /\ events' = [events EXCEPT ![e] = new]
      /\ chain' = [chain EXCEPT ![e] = row.ipfs]
  BY <1>1, <1>2, <1>3 DEF PublishActive, Exists, EventRow
<1> HIDE DEF row, new
<1>6. MetadataIsCurrent' /\ DraftsOffChain'
  BY <1>1, <1>2, <1>3, <1>4, <1>5, OneEventWritten DEF SInv
<1> QED
  BY <1>1, <1>2, <1>6, LoneReturn

LEMMA DeleteEventRowFresh ==
    ASSUME SInv, Serial, NEW s \in Slot, DeleteEventRow(s)
    PROVE  MetadataIsCurrent' /\ DraftsOffChain' /\ CallsFresh'
<1> DEFINE e == calls[s].event
<1>1. /\ calls[s].pc = "delete.event" /\ Return(s)
      /\ UNCHANGED <<types, used, chain>>
  BY DEF DeleteEventRow
<1>2. /\ calls \in [Slot -> CallRecord] /\ e \in Event \cap used
      /\ Fresh(calls[s], events, types, chain)
      /\ events \in [Event -> EventRow] /\ events[e] \in EventRow
      /\ chain \in [Event -> Avatar \cup {None}]
  BY <1>1, Lone
<1>3. NoEvent \in EventRow /\ NoEvent.status = "NONE"
  BY DEF NoEvent, EventRow
<1>4. PICK new \in {events[e], NoEvent} : events' = [events EXCEPT ![e] = new]
  BY <1>2 DEF DeleteEventRow
<1>5. events[e].status = "DRAFT" /\ chain' = [chain EXCEPT ![e] = None]
  BY <1>1, <1>2 DEF Fresh, OnDraft, SInv, DraftsOffChain
<1>6. MetadataIsCurrent' /\ DraftsOffChain'
  BY <1>1, <1>2, <1>3, <1>4, <1>5, OneEventWritten DEF SInv
<1> QED
  BY <1>1, <1>2, <1>6, LoneReturn

\* Types come and go without their event's row being written.
LEMMA TypesWrittenFresh ==
    ASSUME SInv, Serial, NEW s \in Slot,
           DeleteTypes(s) \/ TypeCreate(s) \/ RemoveType(s)
    PROVE  MetadataIsCurrent' /\ DraftsOffChain' /\ CallsFresh'
<1>1. UNCHANGED <<events, chain>> /\ used \subseteq used'
  BY DEF DeleteTypes, TypeCreate, RemoveType
<1>2. MetadataIsCurrent' /\ DraftsOffChain'
  BY <1>1 DEF SInv, MetadataIsCurrent, DraftsOffChain
<1>3. calls \in [Slot -> CallRecord]
  BY DEF SInv, IInv
<1>4. CASE DeleteTypes(s)
  <2> DEFINE c == [calls[s] EXCEPT !.pc = "delete.event"]
  <2>1. calls[s].pc = "delete.types" /\ (Continue(s, c) \/ Return(s))
    BY <1>3, <1>4 DEF DeleteTypes, Goto, Continue, CallRecord
  <2>2. /\ calls[s] \in CallRecord /\ Fresh(calls[s], events, types, chain)
    BY <2>1, Lone
  <2>3. Fresh(c, events', types', chain')
    BY <1>1, <2>1, <2>2
       DEF Fresh, CallRecord, OnDraft, OnPreview, OnEditable, Removing
  <2> HIDE DEF c
  <2> QED
    BY <1>2, <1>3, <2>1, <2>3, LoneCall, LoneReturn
<1>5. CASE TypeCreate(s) \/ RemoveType(s)
  BY <1>2, <1>3, <1>5, LoneReturn DEF TypeCreate, RemoveType
<1> QED
  BY <1>4, <1>5

\* A new event is no event of the request in flight, and has no account.
LEMMA AtOnceFresh ==
    ASSUME SInv, AtOnce
    PROVE  MetadataIsCurrent' /\ DraftsOffChain' /\ CallsFresh'
<1>1. /\ events \in [Event -> EventRow] /\ chain \in [Event -> Avatar \cup {None}]
      /\ UNCHANGED <<chain, calls>>
  BY AtOnceWrites DEF SInv, IInv, RowsInv, RowsTyped
<1>2. CASE UNCHANGED <<events, types, used>>
  BY <1>1, <1>2 DEF SInv, MetadataIsCurrent, DraftsOffChain, CallsFresh
<1>3. ASSUME NEW e \in Event, NEW v \in Avatar \cup {None}, NEW b \in BOOLEAN,
             CreateEvent(e, v, b)
      PROVE  MetadataIsCurrent' /\ DraftsOffChain' /\ CallsFresh'
  <2> DEFINE new == [status |-> "DRAFT", avatar |-> v, symbol |-> b, ipfs |-> None,
                     hash |-> FALSE]
  <2>1. /\ e \notin used /\ used' = used \cup {e} /\ UNCHANGED types
        /\ events' = [events EXCEPT ![e] = new]
    BY <1>3 DEF CreateEvent
  <2>2. new \in EventRow /\ new.status = "DRAFT"
    BY DEF EventRow, EventStatus
  <2>3. chain[e] = None
    BY <2>1 DEF SInv, DraftsOffChain
  <2>4. chain' = [chain EXCEPT ![e] = None]
    BY <1>1, <2>3
  <2> HIDE DEF new
  <2>5. MetadataIsCurrent' /\ DraftsOffChain'
    BY <1>1, <2>1, <2>2, <2>4, OneEventWritten DEF SInv
  <2>6. ASSUME NEW s \in Slot PROVE Fresh(calls'[s], events', types', chain')
    <3>1. CASE calls[s].pc = "idle"
      BY <1>1, <3>1 DEF Fresh
    <3>2. CASE calls[s].pc # "idle"
      <4>1. calls[s].event \in used /\ Fresh(calls[s], events, types, chain)
        BY <3>2, Lone
      <4>2. events'[calls[s].event] = events[calls[s].event]
        BY <1>1, <2>1, <3>2, <4>1, Lone
      <4> QED
        BY <1>1, <2>1, <4>1, <4>2 DEF Fresh
    <3> QED
      BY <3>1, <3>2
  <2> QED
    BY <2>5, <2>6 DEF CallsFresh
<1> QED
  BY <1>2, <1>3, AtOnceWrites

LEMMA NextSInv == ASSUME Serial, SInv, [Next]_vars PROVE SInv'
<1> SUFFICES MetadataIsCurrent' /\ DraftsOffChain' /\ CallsFresh'
  BY NextIInv DEF SInv
<1>1. AtOnce => MetadataIsCurrent' /\ DraftsOffChain' /\ CallsFresh'
  BY AtOnceFresh
<1>2. ASSUME UNCHANGED <<events, types, chain>>, used \subseteq used'
      PROVE  MetadataIsCurrent' /\ DraftsOffChain'
  BY <1>2 DEF SInv, MetadataIsCurrent, DraftsOffChain
<1>3. ASSUME NEW s \in Slot, Quiet(s)
      PROVE  MetadataIsCurrent' /\ DraftsOffChain' /\ CallsFresh'
  BY <1>2, <1>3, QuietFresh, UsedGrows
<1>4. ASSUME NEW s \in Slot, Proceed(s)
      PROVE  MetadataIsCurrent' /\ DraftsOffChain' /\ CallsFresh'
  BY <1>3, <1>4, DraftWritten, PublishRpcFresh, PublishHashFresh, PublishActiveFresh,
     DeleteEventRowFresh, TypesWrittenFresh, Zenon DEF Proceed, Quiet
<1>5. ASSUME NEW s \in Slot, Abort(s)
      PROVE  MetadataIsCurrent' /\ DraftsOffChain' /\ CallsFresh'
  BY <1>3, <1>5, Zenon DEF Quiet
<1>6. ASSUME NEW s \in Slot, NEW e \in Event, Arrive(s, e)
      PROVE  MetadataIsCurrent' /\ DraftsOffChain' /\ CallsFresh'
  <2>1. UNCHANGED <<events, types, chain>>
    BY <1>6, Zenon
       DEF Arrive, UpdateEvent, PreviewEvent, PublishEvent, DeleteEvent, AddEventStaff,
           AddEventTicketType, AddEventTicketTypeWithTickets, RemoveEventTicketType,
           UpdateEventTicket, rows
  <2> QED
    BY <1>2, <1>6, <2>1, ArriveFresh, UsedGrows
<1>7. CASE UNCHANGED vars
  BY <1>7 DEF SInv, MetadataIsCurrent, DraftsOffChain, CallsFresh, vars, rows
<1> QED
  BY <1>1, <1>4, <1>5, <1>6, <1>7, Zenon DEF Next

LEMMA InitSInv == Init => SInv
<1> SUFFICES ASSUME Init PROVE SInv
  OBVIOUS
<1>1. MetadataIsCurrent /\ DraftsOffChain
  BY DEF Init, MetadataIsCurrent, DraftsOffChain, NoEvent
<1>2. CallsFresh
  BY IdleIsFresh DEF Init, CallsFresh
<1> QED
  BY <1>1, <1>2, InitIInv DEF SInv

THEOREM SerialInvariant == ASSUME Serial PROVE Spec => []SInv
BY InitSInv, NextSInv, PTL DEF Spec

\* While requests do not overlap, the metadata and the account of a previewed
\* event show the avatar its row has, wherever publishing was cut short.
THEOREM MetadataStaysCurrent == ASSUME Serial PROVE Spec => []MetadataIsCurrent
<1>1. SInv => MetadataIsCurrent
  BY DEF SInv
<1> QED
  BY <1>1, SerialInvariant, PTL

-----------------------------------------------------------------------------
(* An event on sale *)

\* What ActiveIsFrozen says of one event, its types and its tickets.
EventKept(e) == events'[e] = events[e]
TypesKept(e) == TypesOf(e)' = TypesOf(e)
TicketsKept(e) ==
    /\ TicketsOf(e)' = TicketsOf(e)
    /\ \A t \in TicketsOf(e) :
         tickets'[t] = tickets[t] \/ tickets'[t].status \in Circulating

\* The request in flight is about another event, or will change no row.
LEMMA OtherEvent ==
    ASSUME SInv, NEW e \in Event, events[e].status = "ACTIVE",
           NEW s \in Slot, calls[s].pc \in OnDraft \cup OnPreview \cup OnEditable
    PROVE  /\ calls[s].event \in Event \cap used /\ calls[s].event # e
           /\ Fresh(calls[s], events, types, chain)
<1>1. calls[s].pc # "idle"
  BY DEF OnDraft, OnPreview, OnEditable, Removing
<1> QED
  BY <1>1, Lone DEF Fresh

LEMMA ActiveEventKept ==
    ASSUME SInv, [Next]_vars, NEW e \in Event, events[e].status = "ACTIVE"
    PROVE  EventKept(e)
<1>1. events \in [Event -> EventRow] /\ e \in used
  BY DEF SInv, IInv, RowsInv, RowsTyped, RowsRegistered, Exists
<1>2. ASSUME NEW s \in Slot, Writes(s) PROVE EventKept(e)
  <2>1. CASE UNCHANGED events
    BY <2>1 DEF EventKept
  <2>2. CASE UpdateWrite(s) \/ PreviewWrite(s) \/ PublishHash(s) \/ PublishActive(s)
               \/ DeleteEventRow(s)
    <3>1. calls[s].event \in Event /\ calls[s].event # e
      BY <2>2, OtherEvent
         DEF UpdateWrite, PreviewWrite, PublishHash, PublishActive, DeleteEventRow,
             OnDraft, OnPreview
    <3> QED
      BY <1>1, <2>2, <3>1
         DEF UpdateWrite, PreviewWrite, PublishHash, PublishActive, DeleteEventRow,
             EventKept
  <2> QED
    BY <1>2, <2>1, <2>2, Zenon
       DEF Writes, rows, PreviewAvatar, PublishRpc, DeleteTickets, DeleteTypes,
           TypeCreate, SeatsCreate, RemoveTickets, RemoveType, EditWrite
<1>3. ASSUME NEW f \in Event, NEW v \in Avatar \cup {None}, NEW b \in BOOLEAN,
             CreateEvent(f, v, b)
      PROVE  EventKept(e)
  BY <1>1, <1>3 DEF CreateEvent, EventKept
<1> QED
  BY <1>2, <1>3, SlotWrites, AtOnceWrites DEF Next, vars, rows, EventKept

LEMMA ActiveTypesKept ==
    ASSUME SInv, OwnTypesOnly, [Next]_vars, NEW e \in Event,
           events[e].status = "ACTIVE"
    PROVE  TypesKept(e)
<1>1. /\ types \in [Type -> Event \cup {None}] /\ None \notin Event
      /\ \A k \in Type : types[k] # None => k \in used
  BY ConstantsAssumption DEF SInv, IInv, RowsInv, RowsTyped, RowsRegistered
<1>2. ASSUME NEW s \in Slot, Writes(s) PROVE TypesKept(e)
  <2>1. CASE UNCHANGED types
    BY <2>1 DEF TypesKept, TypesOf
  <2>2. CASE DeleteTypes(s)
    <3>1. calls[s].event # e
      BY <2>2, OtherEvent DEF DeleteTypes, OnDraft
    <3> QED
      BY <1>1, <2>2, <3>1 DEF DeleteTypes, TypesKept, TypesOf
  <2>3. CASE TypeCreate(s)
    <3>1. calls[s].event # e
      BY <2>3, OtherEvent DEF TypeCreate, OnEditable
    <3> QED
      BY <1>1, <2>3, <3>1 DEF TypeCreate, Unused, TypesKept, TypesOf
  <2>4. CASE RemoveType(s)
    <3>1. calls[s].event # e /\ types[calls[s].type] = calls[s].event
      <4>1. calls[s].pc = "remove.type"
        BY <2>4 DEF RemoveType
      <4> QED
        BY <4>1, OtherEvent DEF OnEditable, Removing, Fresh
    <3> QED
      BY <1>1, <2>4, <3>1 DEF RemoveType, TypesKept, TypesOf
  <2> QED
    BY <1>2, <2>1, <2>2, <2>3, <2>4, Zenon
       DEF Writes, rows, UpdateWrite, PreviewAvatar, PreviewWrite, PublishRpc,
           PublishHash, PublishActive, DeleteTickets, DeleteEventRow, SeatsCreate,
           RemoveTickets, EditWrite
<1>3. ASSUME UNCHANGED types PROVE TypesKept(e)
  BY <1>3 DEF TypesKept, TypesOf
<1> QED
  BY <1>2, <1>3, SlotWrites, AtOnceWrites DEF CreateEvent, Next, vars, rows

\* updateEventTicket writes one row, and keeps its event.
LEMMA EditedTicket ==
    ASSUME tickets \in [Ticket -> TicketRow], NEW s \in Slot,
           calls[s].ticket \in Ticket, EditWrite(s)
    PROVE  \A t \in Ticket :
               /\ tickets'[t].event = tickets[t].event
               /\ t # calls[s].ticket => tickets'[t] = tickets[t]
<1> DEFINE u == calls[s].ticket
<1>1. CASE UNCHANGED tickets
  BY <1>1
<1>2. ASSUME NEW st \in Unsold,
             tickets' = [tickets EXCEPT ![u].status = st,
                           ![u].type = IF calls[s].type = None THEN @
                                       ELSE calls[s].type]
      PROVE  \A t \in Ticket :
                 /\ tickets'[t].event = tickets[t].event
                 /\ t # u => tickets'[t] = tickets[t]
  <2> DEFINE row == [tickets[u] EXCEPT !.status = st,
                       !.type = IF calls[s].type = None THEN @ ELSE calls[s].type]
  <2>1. tickets[u] \in TicketRow
    OBVIOUS
  <2>2. tickets' = [tickets EXCEPT ![u] = row] /\ row.event = tickets[u].event
    BY <1>2, <2>1 DEF TicketRow
  <2> HIDE DEF row
  <2> QED
    BY <2>2
<1> QED
  BY <1>1, <1>2 DEF EditWrite

LEMMA ActiveTicketsKept ==
    ASSUME SInv, OwnTypesOnly, [Next]_vars, NEW e \in Event,
           events[e].status = "ACTIVE"
    PROVE  TicketsKept(e)
<1>1. /\ tickets \in [Ticket -> TicketRow] /\ None \notin Event
      /\ NoTicket.event = None
      /\ \A t \in Ticket : t \notin used => tickets[t] = NoTicket
      /\ \A t \in Ticket : tickets[t].event # None =>
           tickets[t].type \in Type /\ types[tickets[t].type] = tickets[t].event
  BY ConstantsAssumption
     DEF SInv, IInv, RowsInv, RowsTyped, RowsRegistered, RowsConnected, NoTicket
<1>2. ASSUME UNCHANGED tickets PROVE TicketsKept(e)
  BY <1>2 DEF TicketsKept, TicketsOf
<1>3. ASSUME NEW s \in Slot, Writes(s) PROVE TicketsKept(e)
  <2>1. CASE DeleteTickets(s)
    <3>1. calls[s].event # e
      BY <2>1, OtherEvent DEF DeleteTickets, OnDraft
    <3>2. \A t \in Ticket :
            tickets'[t] = tickets[t] \/ (tickets[t].event # e /\ tickets'[t] = NoTicket)
      BY <2>1, <3>1 DEF DeleteTickets, Without, TicketsOf
    <3> QED
      BY <1>1, <3>2 DEF TicketsKept, TicketsOf
  <2>2. CASE RemoveTickets(s)
    <3>1. calls[s].event # e /\ types[calls[s].type] = calls[s].event
      <4>1. calls[s].pc = "remove.tickets"
        BY <2>2 DEF RemoveTickets
      <4> QED
        BY <4>1, OtherEvent DEF OnEditable, Removing, Fresh
    <3>2. \A t \in TicketsOfType(calls[s].type) : tickets[t].event # e
      BY <1>1, <3>1 DEF TicketsOfType
    <3>3. \A t \in Ticket :
            tickets'[t] = tickets[t] \/ (tickets[t].event # e /\ tickets'[t] = NoTicket)
      BY <2>2, <3>2 DEF RemoveTickets, Without
    <3> QED
      BY <1>1, <3>3 DEF TicketsKept, TicketsOf
  <2>3. CASE SeatsCreate(s)
    <3>1. calls[s].event # e
      BY <2>3, OtherEvent DEF SeatsCreate, OnEditable
    <3>2. ASSUME NEW t \in Unused(Ticket), NEW st \in Unsold,
                 tickets' = [tickets EXCEPT ![t] =
                   [status |-> st, event |-> calls[s].event,
                    type |-> calls[s].type, seat |-> calls[s].seat]]
          PROVE  TicketsKept(e)
      <4>1. t \in Ticket /\ tickets[t].event = None
        BY <1>1 DEF Unused
      <4> QED
        BY <1>1, <3>1, <3>2, <4>1 DEF TicketsKept, TicketsOf
    <3> QED
      BY <1>2, <2>3, <3>2 DEF SeatsCreate
  <2>4. CASE EditWrite(s)
    <3>1. calls[s].event # e /\ calls[s].pc = "edit.write"
      BY <2>4, OtherEvent DEF EditWrite, OnEditable
    <3>2. /\ calls[s].ticket \in Ticket
          /\ tickets[calls[s].ticket].event \in {calls[s].event, None}
      BY <3>1 DEF SInv, IInv, CallsConnected, CallConnected
    <3>3. \A t \in Ticket : \/ tickets'[t] = tickets[t]
                            \/ tickets[t].event # e /\ tickets'[t].event # e
      BY <1>1, <2>4, <3>1, <3>2, EditedTicket
    <3> QED
      BY <3>3 DEF TicketsKept, TicketsOf
  <2> QED
    BY <1>2, <1>3, <2>1, <2>2, <2>3, <2>4, Zenon
       DEF Writes, rows, UpdateWrite, PreviewAvatar, PreviewWrite, PublishRpc,
           PublishHash, PublishActive, DeleteTypes, DeleteEventRow, TypeCreate,
           RemoveType
<1>4. ASSUME NEW t \in Ticket, Trade(t) PROVE TicketsKept(e)
  BY <1>1, <1>4 DEF Trade, TicketsKept, TicketsOf, TicketRow, Circulating
<1> QED
  BY <1>2, <1>3, <1>4, SlotWrites, AtOnceWrites DEF CreateEvent, Next, vars, rows

\* While requests do not overlap and name types of the event they edit, nothing
\* but trading changes an event on sale, its types and its tickets.
THEOREM ActiveStaysFrozen ==
    ASSUME Serial, OwnTypesOnly
    PROVE  Spec => ActiveIsFrozen
<1>1. ASSUME SInv, [Next]_vars
      PROVE  [\A e \in Event :
                events[e].status = "ACTIVE" =>
                    /\ events'[e] = events[e]
                    /\ TypesOf(e)' = TypesOf(e)
                    /\ TicketsOf(e)' = TicketsOf(e)
                    /\ \A t \in TicketsOf(e) :
                         \/ tickets'[t] = tickets[t]
                         \/ tickets'[t].status \in Circulating]_vars
  BY <1>1, ActiveEventKept, ActiveTypesKept, ActiveTicketsKept
     DEF EventKept, TypesKept, TicketsKept
<1> QED
  BY <1>1, SerialInvariant, PTL DEF Spec, ActiveIsFrozen

=============================================================================
