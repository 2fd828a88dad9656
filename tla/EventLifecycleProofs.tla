------------------------ MODULE EventLifecycleProofs ------------------------
(***************************************************************************)
(* Proofs about EventLifecycle: types, the connection of rows, and what an *)
(* event on sale is backed by, for any number of events, types, tickets    *)
(* and requests in flight, and whatever is cut short.                      *)
(***************************************************************************)
EXTENDS EventLifecycle, TLAPS

\* A deleted or unused row is blank, and a row's identifier was handed out.
RowsRegistered ==
    /\ \A e \in Event : Exists(e) => e \in used
    /\ \A k \in Type : types[k] # None => k \in used
    /\ \A t \in Ticket :
         IF tickets[t].status = "NONE" THEN tickets[t] = NoTicket ELSE t \in used

\* A previewed event keeps its metadata; a recorded transaction has an account.
EventsBacked ==
    \A e \in Event :
        /\ events[e].status \in {"PREVIEW", "ACTIVE"} => events[e].ipfs \in Avatar
        /\ events[e].hash => chain[e] # None
        /\ events[e].status = "ACTIVE" => events[e].hash

\* Arguments a request brings along.
CallTyped(call) ==
    /\ call.pc \in {"seats.type", "remove.check", "remove.tickets",
         "remove.type", "edit.type"} => call.type \in Type
    /\ call.pc = "seats.create" => call.seat \in Seat
    /\ call.pc \in {"edit.ticket", "edit.type", "edit.write"} =>
         call.ticket \in Ticket
    /\ call.pc \in {"staff.find", "staff.create"} => call.person \in Person

CallsTyped == \A s \in Slot : CallTyped(calls[s])

RowsTyped ==
    /\ events \in [Event -> EventRow]
    /\ types \in [Type -> Event \cup {None}]
    /\ tickets \in [Ticket -> TicketRow]
    /\ staff \subseteq Event \X Person
    /\ ordered \subseteq Ticket
    /\ used \subseteq Event \cup Type \cup Ticket
    /\ pinned \subseteq Event \X Avatar
    /\ chain \in [Event -> Avatar \cup {None}]

RowsInv ==
    /\ RowsTyped
    /\ RowsRegistered
    /\ RowsConnected
    /\ OrdersKeepTickets
    /\ EventsBacked

IInv ==
    /\ RowsInv
    /\ calls \in [Slot -> CallRecord]
    /\ CallsTyped
    /\ CallsConnected

LEMMA TypeOKParts == TypeOK <=> RowsTyped /\ calls \in [Slot -> CallRecord]
BY DEF TypeOK, RowsTyped

-----------------------------------------------------------------------------
(* Records across steps *)

\* CallTyped and CallConnected with the tables as parameters, so that they can
\* be asked of a record of this state and the tables of the next.
Backed(c, ev, ty, tk, us, ch) ==
    /\ CallTyped(c)
    /\ c.pc # "idle" => c.event \in Event \cap us
    /\ c.pc \in {"preview.avatar", "preview.write", "publish.rpc"} =>
         c.avatar \in Avatar
    /\ c.pc \in {"publish.look", "publish.rpc", "publish.hash",
         "publish.active"} =>
         ev[c.event].status \in {"PREVIEW", "ACTIVE", "NONE"}
    /\ c.pc \in {"publish.hash", "publish.active"} => ch[c.event] # None
    /\ c.pc = "publish.active" =>
         ev[c.event].hash \/ ev[c.event].status = "NONE"
    /\ c.pc \in {"seats.find", "seats.create"} =>
         c.type \in Type \cap us /\ ty[c.type] \in {c.event, None}
    /\ c.pc \in {"edit.type", "edit.write"} =>
         c.ticket \in Ticket \cap us /\ tk[c.ticket].event \in {c.event, None}
    /\ c.pc = "edit.write" /\ c.type # None =>
         c.type \in Type \cap us /\ ty[c.type] \in {c.event, None}

LEMMA BackedIsConnected ==
    /\ CallsTyped /\ CallsConnected
         <=> \A s \in Slot : Backed(calls[s], events, types, tickets, used, chain)
    /\ CallsTyped' /\ CallsConnected'
         <=> \A s \in Slot :
               Backed(calls'[s], events', types', tickets', used', chain')
<1>1. \A c : CallTyped(c) /\ CallConnected(c)
               <=> Backed(c, events, types, tickets, used, chain)
  BY Zenon DEF CallConnected, Backed, Exists
<1>2. CallsTyped /\ CallsConnected
         <=> \A s \in Slot : CallTyped(calls[s]) /\ CallConnected(calls[s])
  BY Zenon DEF CallsTyped, CallsConnected
<1>3. /\ \A s \in Slot : CallTyped(calls[s])' /\ CallConnected(calls[s])'
                <=> Backed(calls'[s], events', types', tickets', used', chain')
  BY ZenonT(40) DEF CallTyped, CallConnected, Backed, Exists
<1>4. CallsTyped' /\ CallsConnected'
         <=> \A s \in Slot : CallTyped(calls[s])' /\ CallConnected(calls[s])'
  BY Zenon DEF CallsTyped, CallsConnected
<1> QED
  BY <1>1, <1>2, <1>3, <1>4, Zenon

\* What every step preserves: identifiers stay used, and of a used identifier
\* the row keeps its event, its stage beyond DRAFT and its recorded account, or
\* is gone for good.
Persists ==
    /\ used \subseteq used'
    /\ \A e \in Event \cap used :
         /\ events[e].status \in {"PREVIEW", "ACTIVE", "NONE"} =>
              events'[e].status \in {"PREVIEW", "ACTIVE", "NONE"}
         /\ events[e].hash \/ events[e].status = "NONE" =>
              events'[e].hash \/ events'[e].status = "NONE"
         /\ chain[e] # None => chain'[e] # None
    /\ \A k \in Type \cap used : types'[k] \in {types[k], None}
    /\ \A t \in Ticket \cap used : tickets'[t].event \in {tickets[t].event, None}

LEMMA BackedStable ==
    ASSUME Persists, NEW c,
           Backed(c, events, types, tickets, used, chain)
    PROVE  Backed(c, events', types', tickets', used', chain')
<1>1. /\ c.pc \in {"publish.look", "publish.rpc", "publish.hash", "publish.active"} =>
           c.event \in Event \cap used
      /\ used \subseteq used'
  BY DEF Backed, Persists
<1> QED
  BY <1>1 DEF Backed, Persists

\* One slot gets a backed record and the rows persist: all records are backed.
LEMMA CallStep ==
    ASSUME IInv, Persists, RowsInv',
           NEW s \in Slot, NEW c \in CallRecord, Continue(s, c),
           Backed(c, events', types', tickets', used', chain')
    PROVE  IInv'
<1>1. calls \in [Slot -> CallRecord] /\ calls' \in [Slot -> CallRecord]
  BY DEF IInv, Continue
<1>2. ASSUME NEW r \in Slot
      PROVE  Backed(calls'[r], events', types', tickets', used', chain')
  <2>1. Backed(calls[r], events, types, tickets, used, chain)
    BY BackedIsConnected DEF IInv
  <2>2. Backed(calls[r], events', types', tickets', used', chain')
    BY <2>1, BackedStable
  <2> QED
    BY <1>1, <2>2 DEF Continue
<1> QED
  BY <1>1, <1>2, BackedIsConnected DEF IInv

\* Steps that leave the rows alone.
LEMMA RowsStay ==
    ASSUME IInv, UNCHANGED <<rows, chain>>, pinned' \subseteq Event \X Avatar
    PROVE  Persists /\ RowsInv'
<1>1. Persists
  BY DEF Persists, rows
<1>2. RowsTyped' /\ RowsRegistered'
  BY DEF IInv, RowsInv, RowsTyped, RowsRegistered, Exists, rows
<1>3. RowsConnected' /\ OrdersKeepTickets' /\ EventsBacked'
  BY DEF IInv, RowsInv, RowsConnected, OrdersKeepTickets, EventsBacked, Exists, rows
<1> QED
  BY <1>1, <1>2, <1>3 DEF RowsInv

LEMMA QuietStep ==
    ASSUME IInv, UNCHANGED <<rows, chain>>, pinned' \subseteq Event \X Avatar,
           NEW s \in Slot, NEW c \in CallRecord, Continue(s, c),
           Backed(c, events, types, tickets, used, chain)
    PROVE  IInv'
<1>1. Backed(c, events', types', tickets', used', chain')
  BY DEF rows
<1> QED
  BY <1>1, RowsStay, CallStep

LEMMA IdleIsBacked ==
    /\ Idle \in CallRecord
    /\ \A ev, ty, tk, us, ch : Backed(Idle, ev, ty, tk, us, ch)
BY DEF Idle, CallRecord, Pc, Backed, CallTyped

\* A handler that ends leaves nothing behind.
LEMMA ReturnStep ==
    ASSUME IInv, Persists, RowsInv', NEW s \in Slot, Return(s)
    PROVE  IInv'
BY IdleIsBacked, CallStep DEF Return, Continue

LEMMA QuietReturn ==
    ASSUME IInv, UNCHANGED <<rows, pinned, chain>>, NEW s \in Slot, Return(s)
    PROVE  IInv'
BY RowsStay, ReturnStep DEF IInv, RowsInv, RowsTyped

LEMMA CurrentCall ==
    ASSUME IInv, NEW s \in Slot
    PROVE  /\ calls[s] \in CallRecord
           /\ Backed(calls[s], events, types, tickets, used, chain)
BY BackedIsConnected DEF IInv

-----------------------------------------------------------------------------
(* Requests arrive *)

LEMMA ArriveStep ==
    ASSUME IInv, NEW s \in Slot, NEW e \in Event, Arrive(s, e)
    PROVE  IInv'
<1> DEFINE Started(c) ==
        /\ c \in CallRecord /\ Continue(s, c)
        /\ Backed(c, events, types, tickets, used, chain)
        /\ UNCHANGED <<rows, pinned, chain>>
<1>1. events \in [Event -> EventRow] /\ (Exists(e) => e \in used)
  BY DEF IInv, RowsInv, RowsTyped, RowsRegistered
<1>2. ASSUME UpdateEvent(s, e)
      PROVE  \E c : Started(c)
  <2> DEFINE c == [Idle EXCEPT !.pc = "update.write", !.event = e]
  <2>1. c \in CallRecord /\ Backed(c, events, types, tickets, used, chain)
    BY <1>1, <1>2 DEF UpdateEvent, Exists, Idle, CallRecord, Pc, Backed, CallTyped
  <2> QED
    BY <1>2, <2>1 DEF UpdateEvent, Begin, Continue
<1>3. ASSUME PreviewEvent(s, e)
      PROVE  \E c : Started(c)
  <2> DEFINE c == [Idle EXCEPT !.pc = "preview.avatar", !.event = e,
                               !.avatar = events[e].avatar]
  <2>1. c \in CallRecord /\ Backed(c, events, types, tickets, used, chain)
    BY <1>1, <1>3 DEF PreviewEvent, Exists, EventRow, Idle, CallRecord, Pc, Backed,
         CallTyped
  <2> QED
    BY <1>3, <2>1 DEF PreviewEvent, Begin, Continue
<1>4. ASSUME PublishEvent(s, e)
      PROVE  \E c : Started(c)
  <2> DEFINE c == [Idle EXCEPT !.pc = "publish.look", !.event = e]
  <2>1. c \in CallRecord /\ Backed(c, events, types, tickets, used, chain)
    BY <1>1, <1>4 DEF PublishEvent, Publishable, Exists, Idle, CallRecord, Pc, Backed,
         CallTyped
  <2> QED
    BY <1>4, <2>1 DEF PublishEvent, Begin, Continue
<1>5. ASSUME DeleteEvent(s, e)
      PROVE  \E c : Started(c)
  <2> DEFINE c == [Idle EXCEPT !.pc = "delete.check", !.event = e]
  <2>1. c \in CallRecord /\ Backed(c, events, types, tickets, used, chain)
    BY <1>1, <1>5 DEF DeleteEvent, Exists, Idle, CallRecord, Pc, Backed, CallTyped
  <2> QED
    BY <1>5, <2>1 DEF DeleteEvent, Begin, Continue
<1>6. ASSUME NEW p \in Person, AddEventStaff(s, e, p)
      PROVE  \E c : Started(c)
  <2> DEFINE c == [Idle EXCEPT !.pc = "staff.find", !.event = e, !.person = p]
  <2>1. c \in CallRecord /\ Backed(c, events, types, tickets, used, chain)
    BY <1>1, <1>6 DEF AddEventStaff, Idle, CallRecord, Pc, Backed, CallTyped
  <2> QED
    BY <1>6, <2>1 DEF AddEventStaff, Begin, Continue
<1>7. ASSUME AddEventTicketType(s, e)
      PROVE  \E c : Started(c)
  <2> DEFINE c == [Idle EXCEPT !.pc = "type.create", !.event = e]
  <2>1. c \in CallRecord /\ Backed(c, events, types, tickets, used, chain)
    BY <1>1, <1>7 DEF AddEventTicketType, Editable, Exists, Idle, CallRecord, Pc,
         Backed, CallTyped
  <2> QED
    BY <1>7, <2>1 DEF AddEventTicketType, Begin, Continue
<1>8. ASSUME NEW k \in Type, AddEventTicketTypeWithTickets(s, e, k)
      PROVE  \E c : Started(c)
  <2> DEFINE c == [Idle EXCEPT !.pc = "seats.type", !.event = e, !.type = k]
  <2>1. c \in CallRecord /\ Backed(c, events, types, tickets, used, chain)
    BY <1>1, <1>8 DEF AddEventTicketTypeWithTickets, Editable, Exists, Idle,
         CallRecord, Pc, Backed, CallTyped
  <2> QED
    BY <1>8, <2>1 DEF AddEventTicketTypeWithTickets, Begin, Continue
<1>9. ASSUME NEW k \in Type, RemoveEventTicketType(s, e, k)
      PROVE  \E c : Started(c)
  <2> DEFINE c == [Idle EXCEPT !.pc = "remove.check", !.event = e, !.type = k]
  <2>1. c \in CallRecord /\ Backed(c, events, types, tickets, used, chain)
    BY <1>1, <1>9 DEF RemoveEventTicketType, Editable, Exists, Idle, CallRecord, Pc,
         Backed, CallTyped
  <2> QED
    BY <1>9, <2>1 DEF RemoveEventTicketType, Begin, Continue
<1>10. ASSUME NEW t \in Ticket, NEW k \in Type \cup {None},
              UpdateEventTicket(s, e, t, k)
       PROVE  \E c : Started(c)
  <2> DEFINE c == [Idle EXCEPT !.pc = "edit.ticket", !.event = e, !.ticket = t,
                               !.type = k]
  <2>1. c \in CallRecord /\ Backed(c, events, types, tickets, used, chain)
    BY <1>1, <1>10 DEF UpdateEventTicket, Editable, Exists, Idle, CallRecord, Pc,
         Backed, CallTyped
  <2> QED
    BY <1>10, <2>1 DEF UpdateEventTicket, Begin, Continue
<1>11. PICK c : Started(c)
  BY <1>2, <1>3, <1>4, <1>5, <1>6, <1>7, <1>8, <1>9, <1>10, Zenon DEF Arrive
<1> QED
  BY <1>11, QuietStep DEF IInv, RowsInv, RowsTyped

-----------------------------------------------------------------------------
(* Segments that only read, or write outside the database *)

LEMMA PreviewAvatarKeeps == ASSUME IInv, NEW s \in Slot, PreviewAvatar(s) PROVE IInv'
<1> DEFINE c == [calls[s] EXCEPT !.pc = "preview.write"]
<1>1. /\ calls[s] \in CallRecord
      /\ Backed(calls[s], events, types, tickets, used, chain)
  BY CurrentCall
<1>2. c \in CallRecord /\ Backed(c, events, types, tickets, used, chain)
  BY <1>1 DEF PreviewAvatar, CallRecord, Pc, Backed, CallTyped
<1>3. /\ UNCHANGED <<rows, chain>> /\ pinned' \subseteq Event \X Avatar
      /\ Continue(s, c) \/ (Return(s) /\ UNCHANGED pinned)
  BY <1>1 DEF PreviewAvatar, Goto, Continue, Backed, IInv, RowsInv, RowsTyped,
       CallRecord
<1> HIDE DEF c
<1> QED
  BY <1>2, <1>3, QuietStep, QuietReturn

LEMMA PublishLookKeeps == ASSUME IInv, NEW s \in Slot, PublishLook(s) PROVE IInv'
<1> DEFINE c == [calls[s] EXCEPT !.pc = "publish.rpc",
                                 !.avatar = events[calls[s].event].ipfs]
<1>1. /\ calls[s] \in CallRecord
      /\ Backed(calls[s], events, types, tickets, used, chain)
  BY CurrentCall
<1>2. ASSUME Exists(calls[s].event)
      PROVE  c \in CallRecord /\ Backed(c, events, types, tickets, used, chain)
  <2>1. events[calls[s].event].ipfs \in Avatar
    BY <1>1, <1>2 DEF PublishLook, Backed, Exists, IInv, RowsInv, EventsBacked
  <2>2. calls[s].pc = "publish.look"
    BY DEF PublishLook
  <2>3. c \in CallRecord
    BY <1>1, <2>1 DEF CallRecord, Pc
  <2>4. Backed(c, events, types, tickets, used, chain)
    BY <1>1, <2>1, <2>2 DEF CallRecord, Backed, CallTyped
  <2> QED
    BY <2>3, <2>4
<1>3. CASE Exists(calls[s].event)
  BY <1>2, <1>3, QuietStep DEF PublishLook, IInv, RowsInv, RowsTyped
<1>4. CASE ~Exists(calls[s].event)
  BY <1>4, QuietReturn DEF PublishLook
<1> QED
  BY <1>3, <1>4

LEMMA DeleteCheckKeeps == ASSUME IInv, NEW s \in Slot, DeleteCheck(s) PROVE IInv'
<1> DEFINE c == [calls[s] EXCEPT !.pc = "delete.tickets"]
<1>1. /\ calls[s] \in CallRecord
      /\ Backed(calls[s], events, types, tickets, used, chain)
  BY CurrentCall
<1>2. c \in CallRecord /\ Backed(c, events, types, tickets, used, chain)
  BY <1>1 DEF DeleteCheck, CallRecord, Pc, Backed, CallTyped
<1>3. UNCHANGED <<rows, pinned, chain>> /\ (Continue(s, c) \/ Return(s))
  BY <1>1 DEF DeleteCheck, Goto, Continue, CallRecord
<1> HIDE DEF c
<1> QED
  BY <1>2, <1>3, QuietStep, QuietReturn DEF IInv, RowsInv, RowsTyped

LEMMA StaffFindKeeps == ASSUME IInv, NEW s \in Slot, StaffFind(s) PROVE IInv'
<1> DEFINE c == [calls[s] EXCEPT !.pc = "staff.create"]
<1>1. /\ calls[s] \in CallRecord
      /\ Backed(calls[s], events, types, tickets, used, chain)
  BY CurrentCall
<1>2. c \in CallRecord /\ Backed(c, events, types, tickets, used, chain)
  BY <1>1 DEF StaffFind, CallRecord, Pc, Backed, CallTyped
<1>3. UNCHANGED <<rows, pinned, chain>> /\ (Continue(s, c) \/ Return(s))
  BY <1>1 DEF StaffFind, Goto, Continue, CallRecord
<1> HIDE DEF c
<1> QED
  BY <1>2, <1>3, QuietStep, QuietReturn DEF IInv, RowsInv, RowsTyped

LEMMA SeatsTypeKeeps == ASSUME IInv, NEW s \in Slot, SeatsType(s) PROVE IInv'
<1> DEFINE c == [calls[s] EXCEPT !.pc = "seats.find"]
<1>1. /\ calls[s] \in CallRecord
      /\ Backed(calls[s], events, types, tickets, used, chain)
  BY CurrentCall
<1>2. ASSUME types[calls[s].type] = calls[s].event
      PROVE  c \in CallRecord /\ Backed(c, events, types, tickets, used, chain)
  <2>1. calls[s].type \in Type \cap used
    BY <1>1, <1>2, ConstantsAssumption DEF SeatsType, Backed, CallTyped, IInv,
       RowsInv, RowsRegistered
  <2> QED
    BY <1>1, <1>2, <2>1 DEF SeatsType, CallRecord, Pc, Backed, CallTyped
<1>3. UNCHANGED <<rows, pinned, chain>>
  BY DEF SeatsType
<1>4. CASE types[calls[s].type] = calls[s].event
  <2>1. Continue(s, c)
    BY <1>1, <1>4 DEF SeatsType, Goto, Continue, CallRecord
  <2> QED
    BY <1>2, <1>3, <1>4, <2>1, QuietStep DEF IInv, RowsInv, RowsTyped
<1>5. CASE types[calls[s].type] # calls[s].event
  BY <1>3, <1>5, QuietReturn DEF SeatsType
<1> QED
  BY <1>4, <1>5

LEMMA SeatsFindKeeps == ASSUME IInv, NEW s \in Slot, SeatsFind(s) PROVE IInv'
<1>1. /\ calls[s] \in CallRecord
      /\ Backed(calls[s], events, types, tickets, used, chain)
  BY CurrentCall
<1>2. UNCHANGED <<rows, pinned, chain>>
  BY DEF SeatsFind
<1>3. ASSUME NEW x \in Seat,
             Continue(s, [calls[s] EXCEPT !.pc = "seats.create", !.seat = x])
      PROVE  IInv'
  <2> DEFINE c == [calls[s] EXCEPT !.pc = "seats.create", !.seat = x]
  <2>1. c \in CallRecord /\ Backed(c, events, types, tickets, used, chain)
    <3>1. calls[s].pc = "seats.find"
      BY DEF SeatsFind
    <3>2. c \in CallRecord
      BY <1>1 DEF CallRecord, Pc
    <3>3. Backed(c, events, types, tickets, used, chain)
      BY <1>1, <3>1 DEF CallRecord, Backed, CallTyped
    <3> QED
      BY <3>2, <3>3
  <2> QED
    BY <1>2, <1>3, <2>1, QuietStep DEF IInv, RowsInv, RowsTyped
<1> QED
  BY <1>2, <1>3, QuietReturn DEF SeatsFind

LEMMA RemoveCheckKeeps == ASSUME IInv, NEW s \in Slot, RemoveCheck(s) PROVE IInv'
<1> DEFINE c == [calls[s] EXCEPT !.pc = "remove.tickets"]
<1>1. /\ calls[s] \in CallRecord
      /\ Backed(calls[s], events, types, tickets, used, chain)
  BY CurrentCall
<1>2. c \in CallRecord /\ Backed(c, events, types, tickets, used, chain)
  BY <1>1 DEF RemoveCheck, CallRecord, Pc, Backed, CallTyped
<1>3. UNCHANGED <<rows, pinned, chain>> /\ (Continue(s, c) \/ Return(s))
  BY <1>1 DEF RemoveCheck, Goto, Continue, CallRecord
<1> HIDE DEF c
<1> QED
  BY <1>2, <1>3, QuietStep, QuietReturn DEF IInv, RowsInv, RowsTyped

\* A ticket with an event exists, so its identifier is used.
LEMMA EditTicketKeeps == ASSUME IInv, NEW s \in Slot, EditTicket(s) PROVE IInv'
<1> DEFINE call == calls[s]
           c == [call EXCEPT !.pc = IF call.type # None THEN "edit.type"
                                    ELSE "edit.write"]
<1>1. call \in CallRecord /\ Backed(call, events, types, tickets, used, chain)
  BY CurrentCall
<1>2. UNCHANGED <<rows, pinned, chain>>
  BY DEF EditTicket
<1>3. CASE tickets[call.ticket].event = call.event
  <2>1. call.ticket \in Ticket \cap used
    BY <1>1, <1>3, ConstantsAssumption DEF EditTicket, Backed, CallTyped, IInv,
       RowsInv, RowsRegistered, NoTicket
  <2>2. c \in CallRecord /\ Backed(c, events, types, tickets, used, chain)
    BY <1>1, <1>3, <2>1 DEF EditTicket, CallRecord, Pc, Backed, CallTyped
  <2>3. Continue(s, c)
    BY <1>1, <1>3 DEF EditTicket, Goto, Continue, CallRecord
  <2> QED
    BY <1>2, <2>2, <2>3, QuietStep DEF IInv, RowsInv, RowsTyped
<1>4. CASE tickets[call.ticket].event # call.event
  BY <1>2, <1>4, QuietReturn DEF EditTicket
<1> QED
  BY <1>3, <1>4

LEMMA EditTypeKeeps == ASSUME IInv, NEW s \in Slot, EditType(s) PROVE IInv'
<1> DEFINE call == calls[s]
           c == [call EXCEPT !.pc = "edit.write"]
<1>1. call \in CallRecord /\ Backed(call, events, types, tickets, used, chain)
  BY CurrentCall
<1>2. UNCHANGED <<rows, pinned, chain>>
  BY DEF EditType
<1>3. CASE types[call.type] = call.event
  <2>1. call.type \in Type \cap used
    BY <1>1, <1>3, ConstantsAssumption DEF EditType, Backed, CallTyped, IInv,
       RowsInv, RowsRegistered
  <2>2. c \in CallRecord /\ Backed(c, events, types, tickets, used, chain)
    BY <1>1, <1>3, <2>1 DEF EditType, CallRecord, Pc, Backed, CallTyped
  <2>3. Continue(s, c)
    BY <1>1, <1>3 DEF EditType, Goto, Continue, CallRecord
  <2> QED
    BY <1>2, <2>2, <2>3, QuietStep DEF IInv, RowsInv, RowsTyped
<1>4. CASE types[call.type] # call.event
  BY <1>2, <1>4, QuietReturn DEF EditType
<1> QED
  BY <1>3, <1>4

-----------------------------------------------------------------------------
(* Writes to the event's row and its account *)

\* An existing row may change if it keeps what it is backed by.
LEMMA EventWrite ==
    ASSUME IInv, NEW e \in Event \cap used, Exists(e),
           NEW row \in EventRow, row.status # "NONE",
           events' = [events EXCEPT ![e] = row],
           UNCHANGED <<types, tickets, staff, ordered, used, pinned, chain>>,
           events[e].status \in {"PREVIEW", "ACTIVE"} =>
             row.status \in {"PREVIEW", "ACTIVE"},
           events[e].hash => row.hash,
           row.status \in {"PREVIEW", "ACTIVE"} => row.ipfs \in Avatar,
           row.hash => chain[e] # None,
           row.status = "ACTIVE" => row.hash
    PROVE  Persists /\ RowsInv'
<1> USE DEF IInv, RowsInv
<1>1. RowsTyped' /\ events \in [Event -> EventRow]
  BY DEF RowsTyped
<1>2. \A x \in Event : events'[x] = IF x = e THEN row ELSE events[x]
  BY <1>1
<1>3. Persists
  BY <1>2 DEF Persists, Exists
<1>4. RowsRegistered'
  BY <1>2 DEF RowsRegistered, Exists
<1>5. RowsConnected' /\ OrdersKeepTickets'
  BY <1>1, <1>2 DEF RowsConnected, OrdersKeepTickets, Exists, RowsTyped
<1>6. EventsBacked'
  BY <1>2 DEF EventsBacked
<1> QED
  BY <1>1, <1>3, <1>4, <1>5, <1>6

LEMMA UpdateWriteKeeps == ASSUME IInv, NEW s \in Slot, UpdateWrite(s) PROVE IInv'
<1> DEFINE e == calls[s].event
<1>1. e \in Event \cap used
  BY CurrentCall DEF UpdateWrite, Backed
<1>2. events \in [Event -> EventRow] /\ events[e] \in EventRow
  BY <1>1 DEF IInv, RowsInv, RowsTyped
<1>3. CASE Exists(e)
  <2> PICK v \in Avatar \cup {None}, b \in BOOLEAN :
        events' = [events EXCEPT ![e].avatar = v, ![e].symbol = b]
    BY <1>3 DEF UpdateWrite
  <2> DEFINE row == [events[e] EXCEPT !.avatar = v, !.symbol = b]
  <2>1. /\ row \in EventRow
        /\ row.status = events[e].status /\ row.ipfs = events[e].ipfs
        /\ row.hash = events[e].hash
    BY <1>1, <1>2 DEF EventRow
  <2>2. events' = [events EXCEPT ![e] = row]
    BY <1>2
  <2>3. Persists /\ RowsInv'
    <3> HIDE DEF row
    <3> QED
      <4>1. UNCHANGED <<types, tickets, staff, ordered, used, pinned, chain>>
        BY DEF UpdateWrite
      <4>2. /\ row.status \in {"PREVIEW", "ACTIVE"} => row.ipfs \in Avatar
            /\ row.hash => chain[e] # None
            /\ row.status = "ACTIVE" => row.hash
        BY <1>1, <2>1 DEF IInv, RowsInv, EventsBacked
      <4> QED
        BY <1>1, <1>3, <2>1, <2>2, <4>1, <4>2, EventWrite DEF Exists
  <2> QED
    BY <2>3, ReturnStep DEF UpdateWrite
<1>4. CASE ~Exists(e)
  BY <1>4, QuietReturn DEF UpdateWrite, rows
<1> QED
  BY <1>3, <1>4

LEMMA PreviewWriteKeeps == ASSUME IInv, NEW s \in Slot, PreviewWrite(s) PROVE IInv'
<1> DEFINE e == calls[s].event
           row == [events[e] EXCEPT !.status = "PREVIEW", !.ipfs = calls[s].avatar]
<1>1. e \in Event \cap used /\ calls[s].avatar \in Avatar
  BY CurrentCall DEF PreviewWrite, Backed
<1>2. events \in [Event -> EventRow] /\ events[e] \in EventRow
  BY <1>1 DEF IInv, RowsInv, RowsTyped
<1>3. CASE Exists(e)
  <2>1. /\ row \in EventRow
        /\ row.status = "PREVIEW" /\ row.ipfs \in Avatar
        /\ row.hash = events[e].hash
    BY <1>1, <1>2 DEF EventRow, EventStatus
  <2>2. events' = [events EXCEPT ![e] = row]
    BY <1>1, <1>2, <1>3 DEF PreviewWrite, EventRow
  <2>3. Persists /\ RowsInv'
    <3> HIDE DEF row
    <3> QED
      BY <1>1, <1>3, <2>1, <2>2, EventWrite DEF PreviewWrite, IInv, RowsInv,
         EventsBacked
  <2> QED
    BY <2>3, ReturnStep DEF PreviewWrite
<1>4. CASE ~Exists(e)
  BY <1>4, QuietReturn DEF PreviewWrite, rows
<1> QED
  BY <1>3, <1>4

\* Only the account changes; it was missing.
LEMMA PublishRpcKeeps == ASSUME IInv, NEW s \in Slot, PublishRpc(s) PROVE IInv'
<1> DEFINE e == calls[s].event
           c == [calls[s] EXCEPT !.pc = "publish.hash"]
<1>1. /\ calls[s] \in CallRecord
      /\ Backed(calls[s], events, types, tickets, used, chain)
  BY CurrentCall
<1>2. e \in Event \cap used /\ calls[s].avatar \in Avatar
  BY <1>1 DEF PublishRpc, Backed
<1>3. CASE chain[e] = None
  <2>1. /\ chain' = [chain EXCEPT ![e] = calls[s].avatar]
        /\ UNCHANGED <<rows, pinned>> /\ Continue(s, c)
    BY <1>1, <1>3 DEF PublishRpc, Goto, Continue, CallRecord
  <2>2. /\ chain' \in [Event -> Avatar \cup {None}]
        /\ chain'[e] # None
        /\ \A x \in Event : chain[x] # None => chain'[x] # None
    BY <1>2, <2>1, ConstantsAssumption DEF IInv, RowsInv, RowsTyped
  <2>3. Persists
    BY <2>1, <2>2 DEF Persists, rows
  <2>4. RowsInv'
    BY <2>1, <2>2 DEF IInv, RowsInv, RowsTyped, RowsRegistered, RowsConnected,
       OrdersKeepTickets, EventsBacked, Exists, rows
  <2>5. /\ c \in CallRecord
        /\ Backed(c, events', types', tickets', used', chain')
    BY <1>1, <2>1, <2>2 DEF PublishRpc, CallRecord, Pc, Backed, CallTyped, rows
  <2> QED
    BY <2>1, <2>3, <2>4, <2>5, CallStep
<1>4. CASE chain[e] # None
  BY <1>4, QuietReturn DEF PublishRpc
<1> QED
  BY <1>3, <1>4

LEMMA PublishHashKeeps == ASSUME IInv, NEW s \in Slot, PublishHash(s) PROVE IInv'
<1> DEFINE e == calls[s].event
           row == [events[e] EXCEPT !.hash = TRUE]
           c == [calls[s] EXCEPT !.pc = "publish.active"]
<1>1. /\ calls[s] \in CallRecord
      /\ Backed(calls[s], events, types, tickets, used, chain)
  BY CurrentCall
<1>2. e \in Event \cap used /\ chain[e] # None
  BY <1>1 DEF PublishHash, Backed
<1>3. events \in [Event -> EventRow] /\ events[e] \in EventRow
  BY <1>2 DEF IInv, RowsInv, RowsTyped
<1>4. CASE Exists(e)
  <2>1. /\ row \in EventRow
        /\ row.status = events[e].status /\ row.ipfs = events[e].ipfs
        /\ row.hash = TRUE
    BY <1>3 DEF EventRow
  <2>2. events' = [events EXCEPT ![e] = row] /\ Continue(s, c)
    BY <1>1, <1>3, <1>4 DEF PublishHash, EventRow, Goto, Continue, CallRecord
  <2>3. Persists /\ RowsInv'
    <3> HIDE DEF row
    <3> QED
      BY <1>2, <1>4, <2>1, <2>2, EventWrite DEF PublishHash, Exists, IInv, RowsInv,
         EventsBacked
  <2>4. /\ c \in CallRecord
        /\ Backed(c, events', types', tickets', used', chain')
    <3>1. Backed(calls[s], events', types', tickets', used', chain')
      BY <1>1, <2>3, BackedStable
    <3>2. events'[e].hash
      BY <1>2, <1>3, <2>1, <2>2
    <3> QED
      BY <1>1, <3>1, <3>2 DEF PublishHash, CallRecord, Pc, Backed, CallTyped
  <2> QED
    BY <2>2, <2>3, <2>4, CallStep
<1>5. CASE ~Exists(e)
  BY <1>5, QuietReturn DEF PublishHash, rows
<1> QED
  BY <1>4, <1>5

LEMMA PublishActiveKeeps == ASSUME IInv, NEW s \in Slot, PublishActive(s) PROVE IInv'
<1> DEFINE e == calls[s].event
           row == [events[e] EXCEPT !.status = "ACTIVE"]
<1>1. /\ e \in Event \cap used /\ chain[e] # None
      /\ events[e].status \in {"PREVIEW", "ACTIVE", "NONE"}
      /\ events[e].hash \/ ~Exists(e)
  BY CurrentCall DEF PublishActive, Backed, Exists
<1>2. events \in [Event -> EventRow] /\ events[e] \in EventRow
  BY <1>1 DEF IInv, RowsInv, RowsTyped
<1>3. CASE Exists(e)
  <2>1. /\ row \in EventRow
        /\ row.status = "ACTIVE" /\ row.ipfs = events[e].ipfs
        /\ row.hash = events[e].hash
    BY <1>2 DEF EventRow, EventStatus
  <2>2. events' = [events EXCEPT ![e] = row]
    BY <1>2, <1>3 DEF PublishActive, EventRow
  <2>3. Persists /\ RowsInv'
    <3> HIDE DEF row
    <3> QED
      BY <1>1, <1>3, <2>1, <2>2, EventWrite DEF PublishActive, Exists, IInv, RowsInv,
         EventsBacked
  <2> QED
    BY <2>3, ReturnStep DEF PublishActive
<1>4. CASE ~Exists(e)
  BY <1>4, QuietReturn DEF PublishActive, rows
<1> QED
  BY <1>3, <1>4

\* An identifier handed out for the first time belongs to no row yet.
LEMMA CreateEventKeeps ==
    ASSUME IInv, NEW e \in Event, NEW v \in Avatar \cup {None}, NEW b \in BOOLEAN,
           CreateEvent(e, v, b)
    PROVE  IInv'
<1> DEFINE row == [status |-> "DRAFT", avatar |-> v, symbol |-> b, ipfs |-> None,
                   hash |-> FALSE]
<1>1. row \in EventRow /\ row.status = "DRAFT" /\ ~row.hash
  BY DEF EventRow, EventStatus
<1>2. /\ e \notin used /\ used' = used \cup {e}
      /\ events' = [events EXCEPT ![e] = row]
      /\ UNCHANGED <<types, tickets, staff, ordered, pinned, chain, calls>>
  BY DEF CreateEvent
<1> HIDE DEF row
<1>3. RowsTyped' /\ events \in [Event -> EventRow]
  BY <1>1, <1>2 DEF IInv, RowsInv, RowsTyped
<1>4. \A x \in Event : events'[x] = IF x = e THEN row ELSE events[x]
  BY <1>2, <1>3
<1>5. Persists
  BY <1>2, <1>4 DEF Persists
<1>6. RowsRegistered'
  BY <1>1, <1>2, <1>4 DEF IInv, RowsInv, RowsRegistered, Exists
<1>7. RowsConnected' /\ OrdersKeepTickets'
  BY <1>1, <1>2, <1>3, <1>4 DEF IInv, RowsInv, RowsConnected, OrdersKeepTickets,
     Exists, RowsTyped
<1>8. EventsBacked'
  BY <1>1, <1>2, <1>4 DEF IInv, RowsInv, EventsBacked
<1>9. CallsTyped' /\ CallsConnected'
  BY <1>2, <1>5, BackedStable, BackedIsConnected DEF IInv
<1> QED
  BY <1>2, <1>3, <1>6, <1>7, <1>8, <1>9 DEF IInv, RowsInv

\* Nothing refers to the row that goes.
LEMMA DeleteEventRowKeeps ==
    ASSUME IInv, NEW s \in Slot, DeleteEventRow(s) PROVE IInv'
<1> DEFINE e == calls[s].event
<1>1. e \in Event \cap used
  BY CurrentCall DEF DeleteEventRow, Backed
<1>2. CASE ~Referenced(e)
  <2>1. /\ events' = [events EXCEPT ![e] = NoEvent]
        /\ UNCHANGED <<types, tickets, staff, ordered, used, pinned, chain>>
    BY <1>2 DEF DeleteEventRow
  <2>2. NoEvent \in EventRow /\ NoEvent.status = "NONE" /\ ~NoEvent.hash
    BY DEF NoEvent, EventRow
  <2>3. RowsTyped' /\ events \in [Event -> EventRow]
    BY <2>1, <2>2 DEF IInv, RowsInv, RowsTyped
  <2>4. \A x \in Event : events'[x] = IF x = e THEN NoEvent ELSE events[x]
    BY <2>1, <2>3
  <2>5. Persists
    BY <2>1, <2>2, <2>4 DEF Persists
  <2>6. RowsRegistered' /\ EventsBacked' /\ OrdersKeepTickets'
    BY <1>1, <2>1, <2>2, <2>4 DEF IInv, RowsInv, RowsRegistered, EventsBacked,
       OrdersKeepTickets, Exists
  <2>7. RowsConnected'
    <3>1. /\ \A k \in Type : types[k] # e
          /\ \A p \in Person : <<e, p>> \notin staff
      BY <1>2 DEF Referenced, TypesOf, StaffOf
    <3>2. \A p \in Event \X Person : p \in staff => p[1] # e
      BY <3>1
    <3> QED
      BY <2>1, <2>4, <3>1, <3>2 DEF IInv, RowsInv, RowsTyped, RowsConnected, Exists
  <2> QED
    BY <2>3, <2>5, <2>6, <2>7, ReturnStep DEF DeleteEventRow, RowsInv
<1>3. CASE Referenced(e)
  BY <1>3, QuietReturn DEF DeleteEventRow, rows
<1> QED
  BY <1>2, <1>3

-----------------------------------------------------------------------------
(* Writes to types, tickets and staff *)

\* A type may go when no ticket is of it, and come when its event exists.
LEMMA TypeWrite ==
    ASSUME IInv,
           UNCHANGED <<events, tickets, staff, ordered, pinned, chain>>,
           types' \in [Type -> Event \cup {None}],
           used \subseteq used', used' \subseteq Event \cup Type \cup Ticket,
           \A k \in Type :
             \/ types'[k] = types[k]
             \/ types'[k] = None /\ TicketsOfType(k) = {}
             \/ /\ k \notin used /\ k \in used'
                /\ types'[k] \in Event /\ Exists(types'[k])
    PROVE  Persists /\ RowsInv'
<1> USE DEF IInv, RowsInv
<1>1. Persists
  BY DEF Persists
<1>2. RowsTyped' /\ RowsRegistered' /\ OrdersKeepTickets' /\ EventsBacked'
  BY DEF RowsTyped, RowsRegistered, OrdersKeepTickets, EventsBacked, Exists
<1>3. ASSUME NEW t \in Ticket, tickets[t].status # "NONE"
      PROVE  types'[tickets[t].type] = types[tickets[t].type]
  <2>1. /\ tickets[t].type \in Type
        /\ types[tickets[t].type] # None
    BY <1>3, ConstantsAssumption DEF RowsConnected
  <2>2. t \in TicketsOfType(tickets[t].type)
    BY DEF TicketsOfType
  <2>3. tickets[t].type \in used
    BY <2>1 DEF RowsRegistered
  <2> QED
    BY <2>1, <2>2, <2>3
<1>4. RowsConnected'
  BY <1>3 DEF RowsConnected, Exists
<1> QED
  BY <1>1, <1>2, <1>4

LEMMA TypeCreateKeeps == ASSUME IInv, NEW s \in Slot, TypeCreate(s) PROVE IInv'
<1> DEFINE e == calls[s].event
<1>1. e \in Event /\ types \in [Type -> Event \cup {None}]
  BY CurrentCall DEF TypeCreate, Backed, IInv, RowsInv, RowsTyped
<1>2. CASE Exists(e)
  <2>1. PICK k \in Type : /\ k \notin used /\ types' = [types EXCEPT ![k] = e]
                          /\ used' = used \cup {k}
    BY <1>2 DEF TypeCreate, Unused
  <2>2. Persists /\ RowsInv'
    BY <1>1, <1>2, <2>1, TypeWrite DEF TypeCreate, IInv, RowsInv, RowsTyped
  <2> QED
    BY <2>2, ReturnStep DEF TypeCreate
<1>3. CASE ~Exists(e)
  BY <1>3, QuietReturn DEF TypeCreate, rows
<1> QED
  BY <1>2, <1>3

LEMMA DeleteTypesKeeps == ASSUME IInv, NEW s \in Slot, DeleteTypes(s) PROVE IInv'
<1> DEFINE doomed == TypesOf(calls[s].event)
           c == [calls[s] EXCEPT !.pc = "delete.event"]
<1>1. /\ calls[s] \in CallRecord
      /\ Backed(calls[s], events, types, tickets, used, chain)
  BY CurrentCall
<1>2. CASE \A k \in doomed : TicketsOfType(k) = {}
  <2>1. /\ types' = [k \in Type |-> IF k \in doomed THEN None ELSE types[k]]
        /\ Continue(s, c)
        /\ UNCHANGED <<events, tickets, staff, ordered, used, pinned, chain>>
    BY <1>1, <1>2 DEF DeleteTypes, Goto, Continue, CallRecord
  <2>2. Persists /\ RowsInv'
    BY <1>2, <2>1, TypeWrite DEF IInv, RowsInv, RowsTyped
  <2>3. c \in CallRecord /\ Backed(c, events', types', tickets', used', chain')
    BY <1>1, <2>1 DEF DeleteTypes, CallRecord, Pc, Backed, CallTyped
  <2> QED
    BY <2>1, <2>2, <2>3, CallStep
<1>3. CASE ~\A k \in doomed : TicketsOfType(k) = {}
  BY <1>3, QuietReturn DEF DeleteTypes, rows
<1> QED
  BY <1>2, <1>3

LEMMA RemoveTypeKeeps == ASSUME IInv, NEW s \in Slot, RemoveType(s) PROVE IInv'
<1> DEFINE k == calls[s].type
<1>1. /\ types' = IF TicketsOfType(k) = {} THEN [types EXCEPT ![k] = None] ELSE types
      /\ UNCHANGED <<events, tickets, staff, ordered, used, pinned, chain>>
      /\ Return(s)
  BY DEF RemoveType
<1>2. Persists /\ RowsInv'
  BY <1>1, TypeWrite DEF IInv, RowsInv, RowsTyped
<1> QED
  BY <1>1, <1>2, ReturnStep

\* A ticket may go unless it is ordered; otherwise it keeps its event, and has
\* a type of that event.
LEMMA TicketWrite ==
    ASSUME IInv,
           UNCHANGED <<events, types, staff, ordered, pinned, chain>>,
           used \subseteq used', used' \subseteq Event \cup Type \cup Ticket,
           tickets' \in [Ticket -> TicketRow],
           \A t \in Ticket :
             \/ tickets'[t] = tickets[t]
             \/ tickets'[t] = NoTicket /\ t \notin ordered
             \/ /\ tickets'[t].status # "NONE" /\ t \in used'
                /\ tickets'[t].type \in Type
                /\ types[tickets'[t].type] = tickets'[t].event
                /\ tickets'[t].event \in Event
                /\ t \in used => tickets'[t].event = tickets[t].event
    PROVE  Persists /\ RowsInv'
<1> USE DEF IInv, RowsInv
<1>1. NoTicket.status = "NONE" /\ NoTicket.event = None
  BY DEF NoTicket
<1>2. Persists
  BY <1>1 DEF Persists
<1>3. RowsTyped' /\ EventsBacked'
  BY DEF RowsTyped, EventsBacked
<1>4. RowsRegistered'
  <2>1. ASSUME NEW t \in Ticket
        PROVE  IF tickets'[t].status = "NONE" THEN tickets'[t] = NoTicket
               ELSE t \in used'
    BY <1>1 DEF RowsRegistered
  <2> QED
    BY <2>1 DEF RowsRegistered, Exists
<1>5. RowsConnected'
  BY <1>1 DEF RowsConnected, Exists
<1>6. OrdersKeepTickets'
  BY DEF OrdersKeepTickets, RowsTyped
<1> QED
  BY <1>2, <1>3, <1>4, <1>5, <1>6

LEMMA NoTicketTyped == NoTicket \in TicketRow
BY DEF NoTicket, TicketRow

\* deleteMany never touches a ticket with an order.
LEMMA BulkDelete ==
    ASSUME IInv, NEW doomed, Deletable(doomed), tickets' = Without(doomed),
           UNCHANGED <<events, types, staff, ordered, used, pinned, chain>>
    PROVE  Persists /\ RowsInv'
<1>1. tickets' \in [Ticket -> TicketRow]
  BY NoTicketTyped DEF IInv, RowsInv, RowsTyped, Without
<1>2. \A t \in Ticket : \/ tickets'[t] = tickets[t]
                        \/ tickets'[t] = NoTicket /\ t \notin ordered
  BY DEF Deletable, Without
<1> QED
  BY <1>1, <1>2, TicketWrite DEF IInv, RowsInv, RowsTyped

LEMMA DeleteTicketsKeeps == ASSUME IInv, NEW s \in Slot, DeleteTickets(s) PROVE IInv'
<1> DEFINE doomed == TicketsOf(calls[s].event)
           c == [calls[s] EXCEPT !.pc = "delete.types"]
<1>1. /\ calls[s] \in CallRecord
      /\ Backed(calls[s], events, types, tickets, used, chain)
  BY CurrentCall
<1>2. CASE Deletable(doomed)
  <2>1. /\ tickets' = Without(doomed) /\ Continue(s, c)
        /\ UNCHANGED <<events, types, staff, ordered, used, pinned, chain>>
    BY <1>1, <1>2 DEF DeleteTickets, Goto, Continue, CallRecord
  <2>2. Persists /\ RowsInv'
    BY <1>2, <2>1, BulkDelete
  <2>3. c \in CallRecord /\ Backed(c, events', types', tickets', used', chain')
    BY <1>1, <2>1 DEF DeleteTickets, CallRecord, Pc, Backed, CallTyped
  <2> QED
    BY <2>1, <2>2, <2>3, CallStep
<1>3. CASE ~Deletable(doomed)
  BY <1>3, QuietReturn DEF DeleteTickets, rows
<1> QED
  BY <1>2, <1>3

LEMMA RemoveTicketsKeeps == ASSUME IInv, NEW s \in Slot, RemoveTickets(s) PROVE IInv'
<1> DEFINE doomed == TicketsOfType(calls[s].type)
           c == [calls[s] EXCEPT !.pc = "remove.type"]
<1>1. /\ calls[s] \in CallRecord
      /\ Backed(calls[s], events, types, tickets, used, chain)
  BY CurrentCall
<1>2. CASE Deletable(doomed)
  <2>1. /\ tickets' = Without(doomed) /\ Continue(s, c)
        /\ UNCHANGED <<events, types, staff, ordered, used, pinned, chain>>
    BY <1>1, <1>2 DEF RemoveTickets, Goto, Continue, CallRecord
  <2>2. Persists /\ RowsInv'
    BY <1>2, <2>1, BulkDelete
  <2>3. c \in CallRecord /\ Backed(c, events', types', tickets', used', chain')
    BY <1>1, <2>1 DEF RemoveTickets, CallRecord, Pc, Backed, CallTyped
  <2> QED
    BY <2>1, <2>2, <2>3, CallStep
<1>3. CASE ~Deletable(doomed)
  BY <1>3, QuietReturn DEF RemoveTickets, rows
<1> QED
  BY <1>2, <1>3

LEMMA SeatsCreateKeeps == ASSUME IInv, NEW s \in Slot, SeatsCreate(s) PROVE IInv'
<1> DEFINE call == calls[s]
           c == [call EXCEPT !.pc = "seats.find", !.seat = None]
<1>1. call \in CallRecord /\ Backed(call, events, types, tickets, used, chain)
  BY CurrentCall
<1>2. /\ call.event \in Event /\ call.type \in Type /\ call.seat \in Seat
      /\ types[call.type] \in {call.event, None}
  BY <1>1 DEF SeatsCreate, Backed, CallTyped
<1>3. CASE types[call.type] # None
  <2>1. PICK t \in Ticket, st \in Unsold :
          /\ t \notin used /\ used' = used \cup {t}
          /\ tickets' = [tickets EXCEPT ![t] =
               [status |-> st, event |-> call.event, type |-> call.type,
                seat |-> call.seat]]
    BY <1>3 DEF SeatsCreate, Unused
  <2>2. /\ UNCHANGED <<events, types, staff, ordered, pinned, chain>>
        /\ Continue(s, c)
    BY <1>3 DEF SeatsCreate
  <2> DEFINE row == [status |-> st, event |-> call.event, type |-> call.type,
                     seat |-> call.seat]
  <2>3. /\ row \in TicketRow /\ row.status # "NONE"
        /\ row.event = call.event /\ row.type = call.type
    BY <1>2 DEF TicketRow, Unsold
  <2>4. Persists /\ RowsInv'
    <3>1. tickets' = [tickets EXCEPT ![t] = row]
      BY <2>1
    <3> HIDE DEF row
    <3> QED
      BY <1>2, <1>3, <2>1, <2>2, <2>3, <3>1, TicketWrite DEF IInv, RowsInv, RowsTyped
  <2>5. c \in CallRecord /\ Backed(c, events', types', tickets', used', chain')
    <3>1. call.pc = "seats.create"
      BY DEF SeatsCreate
    <3>2. Backed(call, events', types', tickets', used', chain')
      BY <1>1, <2>4, BackedStable
    <3>3. c \in CallRecord
      BY <1>1 DEF CallRecord, Pc
    <3>4. Backed(c, events', types', tickets', used', chain')
      BY <1>1, <3>1, <3>2 DEF CallRecord, Backed, CallTyped
    <3> QED
      BY <3>3, <3>4
  <2> QED
    BY <2>2, <2>4, <2>5, CallStep
<1>4. CASE types[call.type] = None
  BY <1>4, QuietReturn DEF SeatsCreate, rows
<1> QED
  BY <1>3, <1>4

\* The ticket still has its event, and so has the type, or one is gone.
LEMMA EditWriteKeeps == ASSUME IInv, NEW s \in Slot, EditWrite(s) PROVE IInv'
<1> DEFINE call == calls[s]
           t == call.ticket
           ok == /\ tickets[t].status # "NONE"
                 /\ call.type # None => types[call.type] # None
<1>1. call \in CallRecord /\ Backed(call, events, types, tickets, used, chain)
  BY CurrentCall
<1>2. /\ call.event \in Event /\ t \in Ticket \cap used
      /\ tickets[t].event \in {call.event, None}
      /\ call.type # None =>
           call.type \in Type /\ types[call.type] \in {call.event, None}
  BY <1>1 DEF EditWrite, Backed
<1>3. tickets \in [Ticket -> TicketRow] /\ tickets[t] \in TicketRow
  BY <1>2 DEF IInv, RowsInv, RowsTyped
<1>4. CASE ok
  <2>1. PICK st \in Unsold :
          tickets' = [tickets EXCEPT ![t].status = st,
                        ![t].type = IF call.type = None THEN @ ELSE call.type]
    BY <1>4 DEF EditWrite
  <2> DEFINE row == [tickets[t] EXCEPT !.status = st,
                       !.type = IF call.type = None THEN @ ELSE call.type]
  <2>2. tickets' = [tickets EXCEPT ![t] = row]
    BY <1>2, <1>3, <2>1 DEF TicketRow
  <2>3. /\ row \in TicketRow /\ row.status # "NONE"
        /\ row.event = tickets[t].event
        /\ row.type = IF call.type = None THEN tickets[t].type ELSE call.type
    BY <1>2, <1>3 DEF TicketRow, Unsold
  <2>4. /\ tickets[t].type \in Type /\ tickets[t].event \in Event
        /\ types[tickets[t].type] = tickets[t].event
    BY <1>2, <1>4 DEF IInv, RowsInv, RowsConnected
  <2>5. tickets[t].event = call.event
    BY <1>2, <2>4, ConstantsAssumption
  <2>6. row.type \in Type /\ types[row.type] = row.event
    BY <1>2, <1>4, <2>3, <2>4, <2>5
  <2>7. UNCHANGED <<events, types, staff, ordered, used, pinned, chain>> /\ Return(s)
    BY DEF EditWrite
  <2>8. Persists /\ RowsInv'
    <3> HIDE DEF row
    <3> QED
      BY <1>2, <1>3, <2>2, <2>3, <2>4, <2>6, <2>7, TicketWrite DEF IInv, RowsInv,
         RowsTyped
  <2> QED
    BY <2>7, <2>8, ReturnStep
<1>5. CASE ~ok
  BY <1>5, QuietReturn DEF EditWrite, rows
<1> QED
  BY <1>4, <1>5

LEMMA StaffCreateKeeps == ASSUME IInv, NEW s \in Slot, StaffCreate(s) PROVE IInv'
<1> DEFINE pair == <<calls[s].event, calls[s].person>>
<1>1. calls[s].event \in Event /\ calls[s].person \in Person
  BY CurrentCall DEF StaffCreate, Backed, CallTyped
<1>2. CASE Exists(calls[s].event)
  <2>1. /\ staff' = staff \cup {pair}
        /\ UNCHANGED <<events, types, tickets, ordered, used, pinned, chain>>
    BY <1>2 DEF StaffCreate
  <2>2. pair \in Event \X Person /\ pair[1] = calls[s].event
    BY <1>1
  <2>3. Persists
    BY <2>1 DEF Persists
  <2>4. RowsTyped' /\ RowsRegistered' /\ OrdersKeepTickets' /\ EventsBacked'
    BY <2>1, <2>2 DEF IInv, RowsInv, RowsTyped, RowsRegistered, OrdersKeepTickets,
       EventsBacked, Exists
  <2>5. RowsConnected'
    BY <1>2, <2>1, <2>2 DEF IInv, RowsInv, RowsConnected, Exists
  <2> QED
    BY <2>3, <2>4, <2>5, ReturnStep DEF StaffCreate, RowsInv
<1>3. CASE ~Exists(calls[s].event)
  BY <1>3, QuietReturn DEF StaffCreate, rows
<1> QED
  BY <1>2, <1>3

-----------------------------------------------------------------------------
(* Requests of one segment, and trading *)

\* Steps outside the slots keep the records when the rows persist.
LEMMA OutsideStep ==
    ASSUME IInv, Persists, RowsInv', UNCHANGED calls
    PROVE  IInv'
BY BackedStable, BackedIsConnected DEF IInv

LEMMA RemoveEventStaffKeeps ==
    ASSUME IInv, NEW e \in Event, NEW p \in Person, RemoveEventStaff(e, p)
    PROVE  IInv'
<1>1. /\ staff' \subseteq staff
      /\ UNCHANGED <<events, types, tickets, ordered, used, pinned, chain, calls>>
  BY DEF RemoveEventStaff
<1>2. Persists
  BY <1>1 DEF Persists
<1>3. RowsInv'
  BY <1>1 DEF IInv, RowsInv, RowsTyped, RowsRegistered, RowsConnected,
     OrdersKeepTickets, EventsBacked, Exists
<1> QED
  BY <1>1, <1>2, <1>3, OutsideStep

LEMMA PlaceOrderKeeps == ASSUME IInv, NEW t \in Ticket, PlaceOrder(t) PROVE IInv'
<1>1. /\ ordered' = ordered \cup {t} /\ tickets[t].status # "NONE"
      /\ UNCHANGED <<events, types, tickets, staff, used, pinned, chain, calls>>
  BY DEF PlaceOrder
<1>2. Persists
  BY <1>1 DEF Persists
<1>3. RowsInv'
  BY <1>1 DEF IInv, RowsInv, RowsTyped, RowsRegistered, RowsConnected,
     OrdersKeepTickets, EventsBacked, Exists
<1> QED
  BY <1>1, <1>2, <1>3, OutsideStep

LEMMA TradeKeeps == ASSUME IInv, NEW t \in Ticket, Trade(t) PROVE IInv'
<1>1. PICK st \in Circulating : tickets' = [tickets EXCEPT ![t].status = st]
  BY DEF Trade
<1>2. tickets \in [Ticket -> TicketRow] /\ tickets[t] \in TicketRow
  BY DEF IInv, RowsInv, RowsTyped
<1> DEFINE row == [tickets[t] EXCEPT !.status = st]
<1>3. tickets' = [tickets EXCEPT ![t] = row]
  BY <1>1, <1>2 DEF TicketRow
<1>4. /\ row \in TicketRow /\ row.status # "NONE"
      /\ row.event = tickets[t].event /\ row.type = tickets[t].type
  BY <1>2 DEF TicketRow, Circulating, Taken
<1>5. /\ t \in used /\ tickets[t].type \in Type /\ tickets[t].event \in Event
      /\ types[tickets[t].type] = tickets[t].event
  BY DEF Trade, IInv, RowsInv, OrdersKeepTickets, RowsRegistered, RowsConnected
<1> HIDE DEF row
<1>6. UNCHANGED <<events, types, staff, ordered, used, pinned, chain, calls>>
  BY DEF Trade
<1>7. Persists /\ RowsInv'
  BY <1>2, <1>3, <1>4, <1>5, <1>6, TicketWrite DEF IInv, RowsInv, RowsTyped
<1> QED
  BY <1>6, <1>7, OutsideStep

-----------------------------------------------------------------------------
(* The theorems *)

LEMMA InitIInv == Init => IInv
<1> SUFFICES ASSUME Init PROVE IInv
  OBVIOUS
<1>1. NoEvent \in EventRow /\ NoEvent.status = "NONE" /\ ~NoEvent.hash
  BY DEF NoEvent, EventRow
<1>2. NoTicket.status = "NONE"
  BY DEF NoTicket
<1>3. RowsTyped
  BY <1>1, NoTicketTyped DEF Init, RowsTyped
<1>4. RowsRegistered /\ RowsConnected /\ OrdersKeepTickets /\ EventsBacked
  BY <1>1, <1>2 DEF Init, RowsRegistered, RowsConnected, OrdersKeepTickets,
     EventsBacked, Exists
<1>5. CallsTyped /\ CallsConnected /\ calls \in [Slot -> CallRecord]
  BY IdleIsBacked, BackedIsConnected DEF Init
<1> QED
  BY <1>3, <1>4, <1>5 DEF IInv, RowsInv

LEMMA NextIInv == IInv /\ [Next]_vars => IInv'
<1> SUFFICES ASSUME IInv, [Next]_vars PROVE IInv'
  OBVIOUS
<1>1. CASE AtOnce
  BY <1>1, CreateEventKeeps, RemoveEventStaffKeeps, PlaceOrderKeeps, TradeKeeps
     DEF AtOnce
<1>2. ASSUME NEW s \in Slot, NEW e \in Event, Arrive(s, e) PROVE IInv'
  BY <1>2, ArriveStep
<1>3. ASSUME NEW s \in Slot, Proceed(s) PROVE IInv'
  BY <1>3, UpdateWriteKeeps, PreviewAvatarKeeps, PreviewWriteKeeps, PublishLookKeeps,
     PublishRpcKeeps, PublishHashKeeps, PublishActiveKeeps, DeleteCheckKeeps,
     DeleteTicketsKeeps, DeleteTypesKeeps, DeleteEventRowKeeps, StaffFindKeeps,
     StaffCreateKeeps, TypeCreateKeeps, SeatsTypeKeeps, SeatsFindKeeps,
     SeatsCreateKeeps, RemoveCheckKeeps, RemoveTicketsKeeps, RemoveTypeKeeps,
     EditTicketKeeps, EditTypeKeeps, EditWriteKeeps, Zenon DEF Proceed
<1>4. ASSUME NEW s \in Slot, Abort(s) PROVE IInv'
  BY <1>4, QuietReturn DEF Abort
<1>5. CASE UNCHANGED vars
  BY <1>5, RowsStay, OutsideStep DEF vars, IInv, RowsInv, RowsTyped
<1> QED
  BY <1>1, <1>2, <1>3, <1>4, <1>5, Zenon DEF Next

\* The invariant that carries the others: it holds in every reachable state.
THEOREM LifecycleInvariant == Spec => []IInv
BY InitIInv, NextIInv, PTL DEF Spec

\* Rows and handler records keep their types.
THEOREM LifecycleTypeCorrect == Spec => []TypeOK
<1>1. IInv => TypeOK
  BY TypeOKParts DEF IInv, RowsInv
<1> QED
  BY <1>1, LifecycleInvariant, PTL

\* However the organizer's requests overlap or are cut short, every seat has a
\* type of its own event, and no row outlives the event it belongs to.
THEOREM RowsStayConnected == Spec => []RowsConnected
<1>1. IInv => RowsConnected
  BY DEF IInv, RowsInv
<1> QED
  BY <1>1, LifecycleInvariant, PTL

\* No deletion takes away a ticket somebody ordered.
THEOREM OrderedTicketsRemain == Spec => []OrdersKeepTickets
<1>1. IInv => OrdersKeepTickets
  BY DEF IInv, RowsInv
<1> QED
  BY <1>1, LifecycleInvariant, PTL

\* What handlers checked before an await still holds when they rely on it.
THEOREM ChecksOutliveAwaits == Spec => []CallsConnected
<1>1. IInv => CallsConnected
  BY DEF IInv
<1> QED
  BY <1>1, LifecycleInvariant, PTL

\* An event is on sale only with metadata, an account and its transaction.
THEOREM OnSaleIsBacked == Spec => []ActiveIsBacked
<1>1. IInv => ActiveIsBacked
  BY ConstantsAssumption DEF IInv, RowsInv, EventsBacked, ActiveIsBacked
<1> QED
  BY <1>1, LifecycleInvariant, PTL

-----------------------------------------------------------------------------
(* Who writes what *)

\* Segments that write to the rows but staff, to Pinata or to the chain.
Writes(s) ==
    \/ UpdateWrite(s) \/ PreviewAvatar(s) \/ PreviewWrite(s)
    \/ PublishRpc(s) \/ PublishHash(s) \/ PublishActive(s)
    \/ DeleteTickets(s) \/ DeleteTypes(s) \/ DeleteEventRow(s)
    \/ TypeCreate(s) \/ SeatsCreate(s) \/ RemoveTickets(s) \/ RemoveType(s)
    \/ EditWrite(s)

LEMMA SlotWrites ==
    ASSUME NEW s \in Slot, Proceed(s) \/ Abort(s) \/ \E e \in Event : Arrive(s, e)
    PROVE  \/ UNCHANGED <<events, types, tickets, ordered, used, pinned, chain>>
           \/ Proceed(s) /\ Writes(s)
<1>1. ASSUME NEW e \in Event, Arrive(s, e) PROVE UNCHANGED <<rows, pinned, chain>>
  BY <1>1, Zenon
     DEF Arrive, UpdateEvent, PreviewEvent, PublishEvent, DeleteEvent, AddEventStaff,
         AddEventTicketType, AddEventTicketTypeWithTickets, RemoveEventTicketType,
         UpdateEventTicket
<1>2. ASSUME PublishLook(s) \/ DeleteCheck(s) \/ StaffFind(s) \/ SeatsType(s)
               \/ SeatsFind(s) \/ RemoveCheck(s) \/ EditTicket(s) \/ EditType(s)
               \/ Abort(s)
      PROVE  UNCHANGED <<rows, pinned, chain>>
  BY <1>2, Zenon
     DEF PublishLook, DeleteCheck, StaffFind, SeatsType, SeatsFind, RemoveCheck,
         EditTicket, EditType, Abort
<1>3. StaffCreate(s) =>
        UNCHANGED <<events, types, tickets, ordered, used, pinned, chain>>
  BY Zenon DEF StaffCreate
<1> QED
  BY <1>1, <1>2, <1>3, Zenon DEF Proceed, Writes, rows

\* Steps outside the slots leave the slots alone.
LEMMA AtOnceWrites ==
    ASSUME AtOnce
    PROVE  /\ UNCHANGED <<pinned, chain, calls>>
           /\ \/ \E e \in Event, v \in Avatar \cup {None}, b \in BOOLEAN :
                   CreateEvent(e, v, b)
              \/ /\ UNCHANGED <<events, types, used>>
                 /\ UNCHANGED tickets \/ \E t \in Ticket : Trade(t)
<1>1. \A e \in Event, p \in Person : RemoveEventStaff(e, p) =>
        UNCHANGED <<events, types, used, pinned, chain, calls, tickets>>
  BY Zenon DEF RemoveEventStaff
<1>2. \A t \in Ticket : PlaceOrder(t) =>
        UNCHANGED <<events, types, used, pinned, chain, calls, tickets>>
  BY Zenon DEF PlaceOrder
<1>3. \A t \in Ticket : Trade(t) =>
        UNCHANGED <<events, types, used, pinned, chain, calls>>
  BY Zenon DEF Trade
<1>4. \A e \in Event, v \in Avatar \cup {None}, b \in BOOLEAN :
        CreateEvent(e, v, b) => UNCHANGED <<pinned, chain, calls>>
  BY Zenon DEF CreateEvent
<1> QED
  BY <1>1, <1>2, <1>3, <1>4, Zenon DEF AtOnce

LEMMA UsedGrows == ASSUME [Next]_vars PROVE used \subseteq used'
<1>1. ASSUME NEW s \in Slot, Proceed(s) \/ Abort(s) \/ \E e \in Event : Arrive(s, e)
      PROVE  used \subseteq used'
  BY <1>1, SlotWrites
     DEF Writes, UpdateWrite, PreviewAvatar, PreviewWrite, PublishRpc, PublishHash,
         PublishActive, DeleteTickets, DeleteTypes, DeleteEventRow, TypeCreate,
         SeatsCreate, RemoveTickets, RemoveType, EditWrite, rows
<1>2. AtOnce => used \subseteq used'
  BY AtOnceWrites DEF CreateEvent
<1> QED
  BY <1>1, <1>2, Zenon DEF Next, vars, rows

-----------------------------------------------------------------------------
(* The check for duplicate images *)

\* Images are uploaded for events that were created.
UploadsOld == \A e \in Event, v \in Avatar : <<e, v>> \in pinned => e \in used

\* updateEvent leaves alone what preview and publication wrote.
LEMMA UpdateKeeps ==
    ASSUME IInv, NEW s \in Slot, UpdateWrite(s), NEW e \in Event
    PROVE  /\ events'[e].status = events[e].status
           /\ events'[e].hash = events[e].hash
<1>1. events \in [Event -> EventRow] /\ events[e] \in EventRow
  BY DEF IInv, RowsInv, RowsTyped
<1>2. CASE events' = events
  BY <1>2
<1>3. CASE events' # events
  <2>1. PICK v \in Avatar \cup {None}, b \in BOOLEAN :
          events' = [events EXCEPT ![calls[s].event].avatar = v,
                                   ![calls[s].event].symbol = b]
    BY <1>3 DEF UpdateWrite
  <2> QED
    BY <1>1, <2>1 DEF EventRow
<1> QED
  BY <1>2, <1>3

\* A row is a DRAFT from its creation on, and never again once it left.
LEMMA DraftsAreOld ==
    ASSUME IInv, [Next]_vars, NEW e \in Event, events'[e].status = "DRAFT", e \in used
    PROVE  events[e].status = "DRAFT"
<1>1. events \in [Event -> EventRow] /\ NoEvent.status = "NONE"
  BY DEF IInv, RowsInv, RowsTyped, NoEvent
<1>2. CASE UNCHANGED events
  BY <1>2
<1>3. ASSUME NEW f \in Event, NEW v \in Avatar \cup {None}, NEW b \in BOOLEAN,
             CreateEvent(f, v, b)
      PROVE  events'[e] = events[e]
  BY <1>1, <1>3 DEF CreateEvent
<1>4. ASSUME NEW s \in Slot,
             UpdateWrite(s) \/ PreviewWrite(s) \/ PublishHash(s) \/ PublishActive(s)
               \/ DeleteEventRow(s)
      PROVE  events[e].status = "DRAFT"
  <2>1. CASE UpdateWrite(s)
    BY <2>1, UpdateKeeps
  <2>2. ASSUME ~UpdateWrite(s) PROVE calls[s].event \in Event
    BY <1>4, <2>2, CurrentCall DEF Backed, PreviewWrite, PublishHash, PublishActive,
       DeleteEventRow
  <2> QED
    BY <1>1, <1>4, <2>1, <2>2 DEF PreviewWrite, PublishHash, PublishActive,
       DeleteEventRow, EventRow
<1>5. ASSUME NEW s \in Slot, Proceed(s) \/ Abort(s) \/ \E f \in Event : Arrive(s, f)
      PROVE  events[e].status = "DRAFT"
  BY <1>2, <1>4, <1>5, SlotWrites, Zenon
     DEF Writes, rows, PreviewAvatar, PublishRpc, DeleteTickets, DeleteTypes,
         TypeCreate, SeatsCreate, RemoveTickets, RemoveType, EditWrite
<1> QED
  BY <1>2, <1>3, <1>5, AtOnceWrites DEF Next, vars, rows

\* One action uploads, all others leave the set of images alone.
LEMMA PinnedGrows ==
    ASSUME IInv, [Next]_vars, NEW e \in Event, NEW v \in Avatar,
           <<e, v>> \in pinned', <<e, v>> \notin pinned
    PROVE  \E s \in Slot : PreviewAvatar(s) /\ Storing(calls'[s], e, v)
<1>1. calls \in [Slot -> CallRecord]
  BY DEF IInv
<1>2. ASSUME NEW s \in Slot, PreviewAvatar(s) PROVE Storing(calls'[s], e, v)
  BY <1>1, <1>2 DEF PreviewAvatar, Goto, Storing, CallRecord
<1>3. ASSUME NEW s \in Slot, Proceed(s) \/ Abort(s) \/ \E f \in Event : Arrive(s, f)
      PROVE  UNCHANGED pinned \/ PreviewAvatar(s)
  BY <1>3, SlotWrites, Zenon
     DEF Writes, UpdateWrite, PreviewWrite, PublishRpc, PublishHash, PublishActive,
         DeleteTickets, DeleteTypes, DeleteEventRow, TypeCreate, SeatsCreate,
         RemoveTickets, RemoveType, EditWrite, rows
<1> QED
  BY <1>2, <1>3, AtOnceWrites DEF Next, vars

\* A handler goes on only by its own next statement.
LEMMA OnlyItsOwn ==
    ASSUME IInv, [Next]_vars, NEW r \in Slot, calls[r] # Idle
    PROVE  calls'[r] = calls[r] \/ Proceed(r) \/ (Faults /\ calls'[r] = Idle)
<1>1. calls \in [Slot -> CallRecord]
  BY DEF IInv
<1>2. ASSUME NEW s \in Slot, s # r,
             Proceed(s) \/ Abort(s) \/ \E f \in Event : Arrive(s, f)
      PROVE  calls'[r] = calls[r]
  BY <1>1, <1>2
     DEF Proceed, Arrive, Abort, Begin, Continue, Goto, Return,
         UpdateEvent, PreviewEvent, PublishEvent, DeleteEvent, AddEventStaff,
         AddEventTicketType, AddEventTicketTypeWithTickets, RemoveEventTicketType,
         UpdateEventTicket, UpdateWrite, PreviewAvatar, PreviewWrite, PublishLook,
         PublishRpc, PublishHash, PublishActive, DeleteCheck, DeleteTickets,
         DeleteTypes, DeleteEventRow, StaffFind, StaffCreate, TypeCreate, SeatsType,
         SeatsFind, SeatsCreate, RemoveCheck, RemoveTickets, RemoveType, EditTicket,
         EditType, EditWrite
<1>3. AtOnce => UNCHANGED calls
  BY AtOnceWrites
<1>4. ASSUME NEW f \in Event PROVE ~Arrive(r, f)
  BY Zenon
     DEF Arrive, Begin, UpdateEvent, PreviewEvent, PublishEvent, DeleteEvent,
         AddEventStaff, AddEventTicketType, AddEventTicketTypeWithTickets,
         RemoveEventTicketType, UpdateEventTicket
<1>5. Abort(r) => Faults /\ calls'[r] = Idle
  BY <1>1 DEF Abort, Return
<1>6. CASE UNCHANGED vars
  BY <1>6 DEF vars
<1> QED
  BY <1>2, <1>3, <1>4, <1>5, <1>6, Zenon DEF Next

\* A handler with a result to store stores it, and then the event is no DRAFT,
\* unless it is cut short.
LEMMA StoringEnds ==
    ASSUME IInv, [Next]_vars, NEW e \in Event, NEW v \in Avatar,
           NEW r \in Slot, Storing(calls[r], e, v), events'[e].status = "DRAFT"
    PROVE  Storing(calls'[r], e, v) \/ (Faults /\ calls'[r] = Idle)
<1>1. calls[r] # Idle /\ events \in [Event -> EventRow]
  BY DEF IInv, RowsInv, RowsTyped, Storing, Idle
<1>2. ~Proceed(r)
  <2>1. SUFFICES ASSUME Proceed(r) PROVE FALSE
    OBVIOUS
  <2>2. PreviewWrite(r)
    BY <2>1
       DEF Storing, Proceed, UpdateWrite, PreviewAvatar, PublishLook, PublishRpc,
           PublishHash, PublishActive, DeleteCheck, DeleteTickets, DeleteTypes,
           DeleteEventRow, StaffFind, StaffCreate, TypeCreate, SeatsType, SeatsFind,
           SeatsCreate, RemoveCheck, RemoveTickets, RemoveType, EditTicket, EditType,
           EditWrite
  <2> QED
    BY <1>1, <2>2 DEF PreviewWrite, Storing, Exists, EventRow
<1> QED
  BY <1>1, <1>2, OnlyItsOwn

LEMMA UploadsOldStep == ASSUME IInv, [Next]_vars, UploadsOld PROVE UploadsOld'
<1> SUFFICES ASSUME NEW e \in Event, NEW v \in Avatar, <<e, v>> \in pinned'
             PROVE  e \in used'
  BY DEF UploadsOld
<1>1. used \subseteq used'
  BY UsedGrows
<1>2. CASE <<e, v>> \in pinned
  BY <1>1, <1>2 DEF UploadsOld
<1>3. CASE <<e, v>> \notin pinned
  <2>1. PICK s \in Slot : PreviewAvatar(s) /\ Storing(calls'[s], e, v)
    BY <1>3, PinnedGrows
  <2>2. calls'[s].event \in used'
    BY NextIInv, <2>1, Zenon DEF IInv, CallsConnected, CallConnected, Storing
  <2> QED
    BY <2>1, <2>2 DEF Storing
<1> QED
  BY <1>2, <1>3

\* Overlapping updates, previews and deletions never leave an image behind that
\* locks its own event out of previewing; only a handler cut short between the
\* upload and the write does.
THEOREM NoImageIsStranded == Spec => OnlyFaultsStrandImages
<1>1. ASSUME IInv, UploadsOld, [Next]_vars, NEW e \in Event, NEW v \in Avatar,
             LockedOut(e, v)', ~LockedOut(e, v)
      PROVE  Faults /\ \E s \in Slot : Storing(calls[s], e, v) /\ calls'[s] = Idle
  <2>1. /\ <<e, v>> \in pinned' /\ events'[e].status = "DRAFT"
        /\ \A s \in Slot : ~Storing(calls'[s], e, v)
    BY <1>1 DEF LockedOut, Storing
  <2>2. <<e, v>> \in pinned
    BY <1>1, <2>1, PinnedGrows
  <2>3. events[e].status = "DRAFT"
    BY <1>1, <2>1, <2>2, DraftsAreOld DEF UploadsOld
  <2>4. PICK r \in Slot : Storing(calls[r], e, v)
    BY <1>1, <2>2, <2>3 DEF LockedOut
  <2> QED
    BY <1>1, <2>1, <2>4, StoringEnds
<1>2. Init => UploadsOld
  BY DEF Init, UploadsOld
<1>3. IInv /\ UploadsOld /\ [Next]_vars =>
        [\A e \in Event, v \in Avatar :
           LockedOut(e, v)' =>
              \/ LockedOut(e, v)
              \/ Faults /\ \E s \in Slot : Storing(calls[s], e, v) /\ calls'[s] = Idle]_vars
  BY <1>1
<1> QED
  BY <1>2, <1>3, UploadsOldStep, LifecycleInvariant, PTL DEF Spec, OnlyFaultsStrandImages

-----------------------------------------------------------------------------
(* Accounts on Solana *)

\* The transaction that created e's account is about to be stored.
Recording(c, e) == c.pc = "publish.hash" /\ c.event = e

\* What a recording handler owes is paid.
Recorded(e) == events[e].hash \/ ~Exists(e)

\* An account belongs to an event that was created and, if nothing was cut short,
\* is recorded, or a handler is about to.
AccountsPending ==
    \A e \in Event :
        chain[e] # None =>
            /\ e \in used
            /\ ~Faults => Recorded(e) \/ \E s \in Slot : Recording(calls[s], e)

\* Only the RPC of publishEvent creates an account, nothing removes it.
LEMMA AccountsLast ==
    ASSUME IInv, [Next]_vars, NEW e \in Event
    PROVE  \/ chain'[e] = chain[e]
           \/ /\ chain[e] = None
              /\ \E s \in Slot : PublishRpc(s) /\ Recording(calls'[s], e)
<1>1. calls \in [Slot -> CallRecord] /\ chain \in [Event -> Avatar \cup {None}]
  BY DEF IInv, RowsInv, RowsTyped
<1>2. ASSUME NEW s \in Slot, PublishRpc(s), chain'[e] # chain[e]
      PROVE  chain[e] = None /\ Recording(calls'[s], e)
  BY <1>1, <1>2 DEF PublishRpc, Goto, Recording, CallRecord
<1>3. ASSUME NEW s \in Slot, Proceed(s) \/ Abort(s) \/ \E f \in Event : Arrive(s, f)
      PROVE  UNCHANGED chain \/ PublishRpc(s)
  BY <1>3, SlotWrites, Zenon
     DEF Writes, UpdateWrite, PreviewAvatar, PreviewWrite, PublishHash, PublishActive,
         DeleteTickets, DeleteTypes, DeleteEventRow, TypeCreate, SeatsCreate,
         RemoveTickets, RemoveType, EditWrite, rows
<1> QED
  BY <1>2, <1>3, AtOnceWrites DEF Next, vars

\* A row's transaction is never erased, and a deleted row does not come back.
LEMMA RecordsLast ==
    ASSUME IInv, [Next]_vars, NEW e \in Event, e \in used, Recorded(e)
    PROVE  Recorded(e)'
<1>1. events \in [Event -> EventRow] /\ NoEvent.status = "NONE"
  BY DEF IInv, RowsInv, RowsTyped, NoEvent
<1>2. CASE UNCHANGED events
  BY <1>2 DEF Recorded, Exists
<1>3. ASSUME NEW f \in Event, NEW v \in Avatar \cup {None}, NEW b \in BOOLEAN,
             CreateEvent(f, v, b)
      PROVE  events'[e] = events[e]
  BY <1>1, <1>3 DEF CreateEvent
<1>4. ASSUME NEW s \in Slot,
             UpdateWrite(s) \/ PreviewWrite(s) \/ PublishHash(s) \/ PublishActive(s)
               \/ DeleteEventRow(s)
      PROVE  Recorded(e)'
  <2>1. CASE UpdateWrite(s)
    BY <2>1, UpdateKeeps DEF Recorded, Exists
  <2>2. ASSUME ~UpdateWrite(s) PROVE calls[s].event \in Event
    BY <1>4, <2>2, CurrentCall DEF Backed, PreviewWrite, PublishHash, PublishActive,
       DeleteEventRow
  <2> QED
    BY <1>1, <1>4, <2>1, <2>2 DEF PreviewWrite, PublishHash, PublishActive,
       DeleteEventRow, EventRow, Recorded, Exists
<1>5. ASSUME NEW s \in Slot, Proceed(s) \/ Abort(s) \/ \E f \in Event : Arrive(s, f)
      PROVE  Recorded(e)'
  BY <1>2, <1>4, <1>5, SlotWrites, Zenon
     DEF Writes, rows, PreviewAvatar, PublishRpc, DeleteTickets, DeleteTypes,
         TypeCreate, SeatsCreate, RemoveTickets, RemoveType, EditWrite
<1>6. events'[e] = events[e] => Recorded(e)'
  BY DEF Recorded, Exists
<1> QED
  BY <1>2, <1>3, <1>5, <1>6, AtOnceWrites DEF Next, vars, rows

\* The handler about to record an account does so, or the row is gone.
LEMMA RecordingEnds ==
    ASSUME IInv, [Next]_vars, ~Faults, NEW e \in Event, NEW r \in Slot,
           Recording(calls[r], e)
    PROVE  Recording(calls'[r], e) \/ Recorded(e)'
<1>1. calls[r] # Idle /\ events \in [Event -> EventRow]
  BY DEF IInv, RowsInv, RowsTyped, Recording, Idle
<1>2. ASSUME Proceed(r) PROVE Recorded(e)'
  <2>1. PublishHash(r)
    BY <1>2
       DEF Recording, Proceed, UpdateWrite, PreviewAvatar, PreviewWrite, PublishLook,
           PublishRpc, PublishActive, DeleteCheck, DeleteTickets, DeleteTypes,
           DeleteEventRow, StaffFind, StaffCreate, TypeCreate, SeatsType, SeatsFind,
           SeatsCreate, RemoveCheck, RemoveTickets, RemoveType, EditTicket, EditType,
           EditWrite
  <2> QED
    BY <1>1, <2>1 DEF PublishHash, Recording, Recorded, Exists, EventRow
<1> QED
  BY <1>1, <1>2, OnlyItsOwn

LEMMA AccountsPendingStep ==
    ASSUME IInv, [Next]_vars, AccountsPending
    PROVE  AccountsPending'
<1> SUFFICES ASSUME NEW e \in Event, chain'[e] # None
             PROVE  /\ e \in used'
                    /\ ~Faults => \/ Recorded(e)'
                                  \/ \E s \in Slot : Recording(calls'[s], e)
  BY DEF AccountsPending, Recording
<1>1. CASE chain[e] # None
  <2>1. e \in used /\ e \in used'
    BY <1>1, UsedGrows DEF AccountsPending
  <2>2. ASSUME ~Faults
        PROVE  Recorded(e)' \/ \E s \in Slot : Recording(calls'[s], e)
    <3>1. CASE Recorded(e)
      BY <2>1, <3>1, RecordsLast
    <3>2. ASSUME NEW r \in Slot, Recording(calls[r], e)
          PROVE  Recorded(e)' \/ \E s \in Slot : Recording(calls'[s], e)
      BY <2>2, <3>2, RecordingEnds
    <3> QED
      BY <1>1, <2>2, <3>1, <3>2 DEF AccountsPending
  <2> QED
    BY <2>1, <2>2
<1>2. CASE chain[e] = None
  <2>1. PICK s \in Slot : PublishRpc(s) /\ Recording(calls'[s], e)
    BY <1>2, AccountsLast
  <2>2. calls'[s].event \in used'
    BY NextIInv, <2>1, Zenon DEF IInv, CallsConnected, CallConnected, Recording
  <2> QED
    BY <2>1, <2>2 DEF Recording
<1> QED
  BY <1>1, <1>2

\* The safety half of AccountGetsRecorded: without faults, an account on Solana
\* that its event's row does not know of has a handler about to record it, ...
AccountsHaveRecorder ==
    ~Faults =>
        \A e \in Event :
            chain[e] # None /\ ~Recorded(e) =>
                \E s \in Slot : Recording(calls[s], e)

THEOREM AccountsAreBeingRecorded == Spec => []AccountsHaveRecorder
<1>1. Init => AccountsPending
  BY DEF Init, AccountsPending
<1>2. AccountsPending => AccountsHaveRecorder
  BY DEF AccountsPending, AccountsHaveRecorder
<1> QED
  BY <1>1, <1>2, AccountsPendingStep, LifecycleInvariant, PTL DEF Spec

\* ... and the only step of that handler is the one that records it.
RecorderOnlyRecords ==
    [][~Faults =>
         \A e \in Event, s \in Slot :
             Recording(calls[s], e) => Recording(calls'[s], e) \/ Recorded(e)']_vars

THEOREM RecordersOnlyRecord == Spec => RecorderOnlyRecords
<1>1. IInv /\ [Next]_vars =>
        (~Faults =>
           \A e \in Event, s \in Slot :
               Recording(calls[s], e) => Recording(calls'[s], e) \/ Recorded(e)')
  BY RecordingEnds
<1> QED
  BY <1>1, LifecycleInvariant, PTL DEF Spec, RecorderOnlyRecords

\* Past the RPC: about to record the account, or to put the event on sale.
PastRpc(c, e) == c.pc \in {"publish.hash", "publish.active"} /\ c.event = e

\* The account exists, the event is not on sale, and no handler is on the way.
Stranded(e) ==
    /\ chain[e] # None
    /\ events[e].status # "ACTIVE"
    /\ \A s \in Slot : ~PastRpc(calls[s], e)

\* A handler gets past the RPC only by creating the account.
LEMMA PastRpcByRpc ==
    ASSUME IInv, [Next]_vars, NEW e \in Event, NEW r \in Slot,
           PastRpc(calls'[r], e), ~PastRpc(calls[r], e)
    PROVE  PublishRpc(r) /\ calls[r].event = e /\ chain[e] = None
<1>1. calls \in [Slot -> CallRecord] /\ calls'[r] # calls[r]
  BY DEF IInv
<1>2. ASSUME NEW s \in Slot, Proceed(s) \/ Abort(s) \/ \E f \in Event : Arrive(s, f)
      PROVE  /\ s = r
             /\ ~\E f \in Event : Arrive(s, f)
             /\ ~Abort(s)
  <2>1. calls' = [calls EXCEPT ![s] = calls'[s]]
    BY <1>1, <1>2
       DEF Proceed, Arrive, Abort, Begin, Continue, Goto, Return,
           UpdateEvent, PreviewEvent, PublishEvent, DeleteEvent, AddEventStaff,
           AddEventTicketType, AddEventTicketTypeWithTickets, RemoveEventTicketType,
           UpdateEventTicket, UpdateWrite, PreviewAvatar, PreviewWrite, PublishLook,
           PublishRpc, PublishHash, PublishActive, DeleteCheck, DeleteTickets,
           DeleteTypes, DeleteEventRow, StaffFind, StaffCreate, TypeCreate, SeatsType,
           SeatsFind, SeatsCreate, RemoveCheck, RemoveTickets, RemoveType, EditTicket,
           EditType, EditWrite
  <2>2. s = r
    BY <1>1, <2>1
  <2>3. ASSUME NEW f \in Event, Arrive(r, f) PROVE FALSE
    <3>1. ASSUME NEW c, Begin(r, c), c.pc \notin {"publish.hash", "publish.active"}
          PROVE  FALSE
      BY <1>1, <3>1 DEF PastRpc, Begin
    <3>2. CASE \/ PreviewEvent(r, f) \/ PublishEvent(r, f) \/ DeleteEvent(r, f)
               \/ AddEventTicketType(r, f)
      BY <3>1, <3>2 DEF Idle, PreviewEvent, PublishEvent, DeleteEvent,
         AddEventTicketType
    <3>3. ~UpdateEvent(r, f)
      BY <3>1 DEF Idle, UpdateEvent
    <3>4. ASSUME NEW p \in Person, AddEventStaff(r, f, p) PROVE FALSE
      BY <3>1, <3>4 DEF Idle, AddEventStaff
    <3>5. ASSUME NEW k \in Type,
                 \/ AddEventTicketTypeWithTickets(r, f, k)
                 \/ RemoveEventTicketType(r, f, k)
          PROVE  FALSE
      BY <3>1, <3>5 DEF Idle, AddEventTicketTypeWithTickets, RemoveEventTicketType
    <3>6. ASSUME NEW t \in Ticket, NEW k \in Type \cup {None},
                 UpdateEventTicket(r, f, t, k)
          PROVE  FALSE
      BY <3>1, <3>6 DEF Idle, UpdateEventTicket
    <3> QED
      BY <2>3, <3>2, <3>3, <3>4, <3>5, <3>6 DEF Arrive
  <2>4. ~Abort(r)
    BY <1>1 DEF PastRpc, Abort, Return, Idle
  <2> QED
    BY <2>2, <2>3, <2>4
<1>3. Proceed(r)
  BY <1>1, <1>2, AtOnceWrites DEF Next, vars
<1>4. calls[r] \in CallRecord
  BY <1>1
<1>5. CASE PublishRpc(r)
  BY <1>1, <1>4, <1>5 DEF PublishRpc, PastRpc, Goto, Return, Idle, CallRecord
<1>6. CASE PublishHash(r)
  BY <1>1, <1>4, <1>6 DEF PublishHash, PastRpc, Goto, Return, Idle, CallRecord
<1>7. CASE \/ UpdateWrite(r) \/ PreviewWrite(r) \/ PublishActive(r)
           \/ DeleteEventRow(r) \/ StaffCreate(r) \/ TypeCreate(r)
           \/ RemoveType(r) \/ EditWrite(r)
  BY <1>1, <1>7
     DEF PastRpc, Return, Idle, UpdateWrite, PreviewWrite, PublishActive,
         DeleteEventRow, StaffCreate, TypeCreate, RemoveType, EditWrite
<1>8. CASE \/ PreviewAvatar(r) \/ DeleteCheck(r) \/ DeleteTickets(r)
           \/ DeleteTypes(r) \/ StaffFind(r) \/ SeatsType(r) \/ RemoveCheck(r)
           \/ RemoveTickets(r) \/ EditTicket(r) \/ EditType(r)
  BY <1>1, <1>4, <1>8
     DEF PastRpc, Goto, Return, Idle, CallRecord, PreviewAvatar, DeleteCheck,
         DeleteTickets, DeleteTypes, StaffFind, SeatsType, RemoveCheck,
         RemoveTickets, EditTicket, EditType
<1>9. CASE PublishLook(r) \/ SeatsFind(r) \/ SeatsCreate(r)
  <2>1. ASSUME NEW c, Continue(r, c), c.pc \notin {"publish.hash", "publish.active"}
        PROVE  FALSE
    BY <1>1, <2>1 DEF PastRpc, Continue
  <2>2. ~Return(r)
    BY <1>1 DEF PastRpc, Return, Idle
  <2>3. CASE PublishLook(r)
    BY <1>4, <2>1, <2>2, <2>3 DEF PublishLook, CallRecord
  <2>4. CASE SeatsFind(r)
    BY <1>4, <2>1, <2>2, <2>4 DEF SeatsFind, CallRecord
  <2>5. CASE SeatsCreate(r)
    BY <1>4, <2>1, <2>2, <2>5 DEF SeatsCreate, CallRecord
  <2> QED
    BY <1>9, <2>3, <2>4, <2>5
<1> QED
  BY <1>3, <1>5, <1>6, <1>7, <1>8, <1>9 DEF Proceed

\* An event goes on sale by the last statement of publishEvent.
LEMMA SaleByPublish ==
    ASSUME IInv, [Next]_vars, NEW e \in Event,
           events[e].status # "ACTIVE", events'[e].status = "ACTIVE"
    PROVE  \E s \in Slot : PastRpc(calls[s], e)
<1>1. events \in [Event -> EventRow] /\ NoEvent.status = "NONE"
  BY DEF IInv, RowsInv, RowsTyped, NoEvent
<1>2. events' # events
  OBVIOUS
<1>3. ASSUME NEW f \in Event, NEW v \in Avatar \cup {None}, NEW b \in BOOLEAN,
             CreateEvent(f, v, b)
      PROVE  FALSE
  BY <1>1, <1>3 DEF CreateEvent
<1>4. ASSUME NEW s \in Slot,
             UpdateWrite(s) \/ PreviewWrite(s) \/ PublishHash(s) \/ PublishActive(s)
               \/ DeleteEventRow(s)
      PROVE  PastRpc(calls[s], e)
  <2>1. CASE UpdateWrite(s)
    BY <2>1, UpdateKeeps
  <2>2. ASSUME ~UpdateWrite(s) PROVE calls[s].event \in Event
    BY <1>4, <2>2, CurrentCall DEF Backed, PreviewWrite, PublishHash, PublishActive,
       DeleteEventRow
  <2> QED
    BY <1>1, <1>4, <2>1, <2>2 DEF PreviewWrite, PublishHash, PublishActive,
       DeleteEventRow, EventRow, PastRpc
<1>5. ASSUME NEW s \in Slot, Proceed(s) \/ Abort(s) \/ \E f \in Event : Arrive(s, f)
      PROVE  PastRpc(calls[s], e)
  BY <1>2, <1>4, <1>5, SlotWrites, Zenon
     DEF Writes, rows, PreviewAvatar, PublishRpc, DeleteTickets, DeleteTypes,
         TypeCreate, SeatsCreate, RemoveTickets, RemoveType, EditWrite
<1> QED
  BY <1>2, <1>3, <1>5, AtOnceWrites DEF Next, vars, rows

\* An event whose publishing was cut short after the account had been created
\* never goes on sale: the handler that tries again fails at the RPC, and nothing
\* else records the transaction.
StrandedForGood == [][\A e \in Event : Stranded(e) => Stranded(e)']_vars

THEOREM StrandedStayStranded == Spec => StrandedForGood
<1>1. ASSUME IInv, [Next]_vars, NEW e \in Event, Stranded(e)
      PROVE  Stranded(e)'
  <2>1. chain'[e] = chain[e]
    BY <1>1, AccountsLast DEF Stranded
  <2>2. events'[e].status # "ACTIVE"
    BY <1>1, SaleByPublish DEF Stranded
  <2>3. ASSUME NEW s \in Slot PROVE ~PastRpc(calls'[s], e)
    BY <1>1, PastRpcByRpc DEF Stranded
  <2> QED
    BY <1>1, <2>1, <2>2, <2>3 DEF Stranded, PastRpc
<1>2. IInv /\ [Next]_vars => \A e \in Event : Stranded(e) => Stranded(e)'
  BY <1>1
<1> QED
  BY <1>2, LifecycleInvariant, PTL DEF Spec, StrandedForGood

=============================================================================
