---------------------------- MODULE Storefront ----------------------------
(***************************************************************************)
(* What customers, organizers and staff are shown of an event: its stage   *)
(* and whether tickets are being checked (getEventStage, getCheckable),    *)
(* its counters and its list of tickets (MarketplaceService, and the       *)
(* reading endpoints of OrganizerService and StaffService).                *)
(*                                                                         *)
(* Every counter is a statement of its own and every test of the stage     *)
(* reads the clock again, while time passes and the event and its tickets  *)
(* change.  One client reads; clients do not affect each other.            *)
(*                                                                         *)
(* Organizers' handlers test the event's status and write some awaits      *)
(* later, by id alone.  As every event was a draft once, such a request    *)
(* may be in flight in any state; their writes are therefore enabled       *)
(* whatever the status is by then.                                         *)
(***************************************************************************)
EXTENDS Integers, FiniteSets

CONSTANTS
    Schedule,  \* times an organizer may give an event; nothing orders them
    Ticket,    \* the tickets of the event, all of one type
    Horizon    \* the clock is not looked at after this time

Times ==
    [release : Int, start : Int, end : Int, stop : Int, checkIn : Int]

ASSUME ConstantsAssumption ==
    /\ Schedule \subseteq Times
    /\ Schedule # {}
    /\ IsFiniteSet(Ticket)
    /\ Horizon \in Nat

VARIABLES
    now,      \* the server's clock
    event,    \* its status and times
    launched, \* has its account on Solana been created and the event put on sale?
    tickets,  \* the status of each ticket
    ordered,  \* tickets somebody has placed an order for
    call,     \* the request in flight
    answer,   \* what the latest step answered
    shown,    \* how far on the latest stage shown was
    late,     \* history: has a write for a draft hit an event that was none any more?
    overtaken \* history: tickets edited or added although on sale or ordered

offer == <<tickets, ordered, overtaken>>
world == <<event, launched, late, offer>>
vars == <<now, world, call, answer, shown>>

-----------------------------------------------------------------------------
(* Rows, requests and answers *)

Unsold == {"NEW", "NOT_EXIST", "NOT_FOR_SALE"}
Circulating == {"SOLD", "RESALE", "USED"}

\* "NONE": there is no such row (yet).
TicketStatus == Unsold \cup Circulating \cup {"NONE"}

EventRow == [status : {"DRAFT", "PREVIEW", "ACTIVE"}, times : Schedule]

Pc ==
    {"idle", "own.seats", "gate.time", "event.total", "event.left",
     "event.resale", "types.total", "types.sold"}

\* What a request holds: the event as it read it, and counters.
CallRecord == [pc : Pc, row : EventRow, total : Nat, part : Nat]

Stages ==
    {"DRAFT", "PREVIEW", "ONSALE", "SALE_ENDED", "LIVE", "ENDED", "none"}

\* kind says what was asked; the stage was worked out between from and to.
AnswerRecord ==
    [kind : {"none", "stage", "counts", "listing", "gate"}, row : EventRow,
     stage : Stages, checkable : BOOLEAN, listed : BOOLEAN, from : Int,
     to : Int, total : Nat, part : Nat]

Blank == CHOOSE row \in EventRow : TRUE
NoCall == [pc |-> "idle", row |-> Blank, total |-> 0, part |-> 0]
NoAnswer ==
    [kind |-> "none", row |-> Blank, stage |-> "none", checkable |-> FALSE,
     listed |-> FALSE, from |-> 0, to |-> 0, total |-> 0, part |-> 0]

Init ==
    /\ now = 0
    /\ \E x \in Schedule : event = [status |-> "DRAFT", times |-> x]
    /\ launched = FALSE
    /\ tickets = [t \in Ticket |-> "NONE"]
    /\ ordered = {}
    /\ call = NoCall
    /\ answer = NoAnswer
    /\ shown = 0
    /\ late = FALSE
    /\ overtaken = {}

-----------------------------------------------------------------------------
(* OrganizerService.getEventStage and getCheckable *)

\* Ten readings of the clock, by code that awaits nothing: any time may pass
\* between any two of them.
Readings ==
    {c \in [1 .. 10 -> 0 .. Horizon] : \A i \in 1 .. 9 : c[i] <= c[i + 1]}

SaleEnd(x) == x.start - x.stop

\* c[i] is what the i-th new Date() returned.
\* Mutants: the end of the sale is tested before the release; at the very time
\* sales stop no test applies; before the release the row's status is shown.
GetEventStageEndFirst(e, c) ==
    LET x == e.times
    IN  IF e.status # "ACTIVE" THEN e.status
        ELSE IF c[1] >= SaleEnd(x) /\ c[2] < x.start THEN "SALE_ENDED"
        ELSE IF c[3] < x.release THEN "PREVIEW"
        ELSE IF c[4] < SaleEnd(x) THEN "ONSALE"
        ELSE IF c[5] >= x.start /\ c[6] < x.end THEN "LIVE"
        ELSE "ENDED"

GetEventStageOneEnd(e, c) ==
    LET x == e.times
    IN  IF e.status # "ACTIVE" THEN e.status
        ELSE IF c[1] < x.release THEN "PREVIEW"
        ELSE IF c[2] < SaleEnd(x) /\ c[3] >= x.release THEN "ONSALE"
        ELSE IF c[4] > SaleEnd(x) /\ c[5] < x.start THEN "SALE_ENDED"
        ELSE IF c[6] >= x.start /\ c[7] < x.end THEN "LIVE"
        ELSE IF c[8] >= x.end THEN "ENDED"
        ELSE "none"

GetEventStageByStatus(e, c) ==
    IF e.status # "ACTIVE" \/ c[1] < e.times.release THEN e.status
    ELSE IF c[2] < e.times.start THEN "ONSALE" ELSE "LIVE"

GetEventStage(e, c) ==
    LET x == e.times
    IN  IF e.status # "ACTIVE" THEN e.status
        ELSE IF c[1] < x.release THEN "PREVIEW"
        ELSE IF c[2] < SaleEnd(x) /\ c[3] >= x.release THEN "ONSALE"
        ELSE IF c[4] >= SaleEnd(x) /\ c[5] < x.start THEN "SALE_ENDED"
        ELSE IF c[6] >= x.start /\ c[7] < x.end THEN "LIVE"
        ELSE IF c[8] >= x.end THEN "ENDED"
        ELSE "none"

GetCheckable(e, c) ==
    /\ c[9] >= e.times.start - e.times.checkIn
    /\ c[10] < e.times.end

\* What may be shown of an event, with the first and last reading.
View(e, c) ==
    [row |-> e, stage |-> GetEventStage(e, c), checkable |-> GetCheckable(e, c),
     from |-> c[1], to |-> c[10]]

Views == {View(e, c) : e \in EventRow, c \in Readings}

\* StaffService: nobody is admitted after the end of the event.
\* Mutant: the start instead of the end.
GateOpenUntilStart(e, t) == ~(t > e.times.start)

GateOpen(e, t) == ~(t > e.times.end)

\* getEventTickets: sales stop before the end of the event.
\* Mutant: the other of the two spans of minutes.
ListsTicketsOther(e, t) == ~(e.times.end - e.times.checkIn < t)

ListsTickets(e, t) == ~(e.times.end - e.times.stop < t)

-----------------------------------------------------------------------------
(* The world: time, the organizer, and trading *)

Tick ==
    /\ now < Horizon
    /\ now' = now + 1
    /\ answer' = NoAnswer
    /\ UNCHANGED <<world, call, shown>>

\* The last statement of updateEvent, whatever the row is by now.
UpdateEvent(x) ==
    /\ event' = [event EXCEPT !.times = x]
    /\ late' = (late \/ event.status # "DRAFT")
    /\ answer' = NoAnswer
    /\ UNCHANGED <<now, launched, offer, call, shown>>

\* The last statement of previewEvent: an event on sale is taken off again.
PreviewEvent ==
    /\ event' = [event EXCEPT !.status = "PREVIEW"]
    /\ late' = (late \/ event.status = "ACTIVE")
    /\ answer' = NoAnswer
    /\ UNCHANGED <<now, launched, offer, call, shown>>

\* The last statement of publishEvent, after its RPC, which succeeds once.
PublishEvent ==
    /\ event.status = "PREVIEW"
    /\ ~launched
    /\ event' = [event EXCEPT !.status = "ACTIVE"]
    /\ launched' = TRUE
    /\ answer' = NoAnswer
    /\ UNCHANGED <<now, late, offer, call, shown>>

\* addEventTicketTypeWithTickets, for one seat of its list.
AddSeat(t, st) ==
    /\ tickets[t] = "NONE"
    /\ tickets' = [tickets EXCEPT ![t] = st]
    /\ overtaken' = IF launched THEN overtaken \cup {t} ELSE overtaken
    /\ answer' = NoAnswer
    /\ UNCHANGED <<now, event, launched, late, ordered, call, shown>>

\* updateEventTicket.
EditTicket(t, st) ==
    /\ tickets[t] # "NONE"
    /\ tickets' = [tickets EXCEPT ![t] = st]
    /\ overtaken' =
         IF launched \/ t \in ordered THEN overtaken \cup {t} ELSE overtaken
    /\ answer' = NoAnswer
    /\ UNCHANGED <<now, event, launched, late, ordered, call, shown>>

\* The tickets' deletion by deleteEvent or removeEventTicketType: one statement,
\* which the orders' foreign key makes fail as a whole.
RemoveSeats ==
    /\ ordered = {}
    /\ tickets' = [t \in Ticket |-> "NONE"]
    /\ answer' = NoAnswer
    /\ UNCHANGED <<now, event, launched, late, ordered, overtaken, call, shown>>

\* checkoutTicket tested the status before its awaits: since then another
\* customer may have bought the ticket, or the organizer withdrawn it.
PlaceOrder(t) ==
    /\ tickets[t] # "NONE"
    /\ ordered' = ordered \cup {t}
    /\ overtaken' = IF tickets[t] \in Circulating \cup {"NEW"}
                    THEN overtaken ELSE overtaken \cup {t}
    /\ answer' = NoAnswer
    /\ UNCHANGED <<now, event, launched, late, tickets, call, shown>>

\* updateOrder, resale, unlist and the gate, by id alone.
Trade(t, st) ==
    /\ t \in ordered
    /\ tickets' = [tickets EXCEPT ![t] = st]
    /\ answer' = NoAnswer
    /\ UNCHANGED <<now, event, launched, late, ordered, overtaken, call, shown>>

-----------------------------------------------------------------------------
(* Requests of the client *)

\* The counters of an event count these, and those of a ticket type those.
\* Mutants: resold tickets are left out; tickets on offer are.
EventTotalUnsold == {"NEW", "LOCK", "USED"}
TypeTotalSold == {"SOLD", "NOT_FOR_SALE", "USED"}

EventTotal == {"NEW", "RESALE", "LOCK", "SOLD", "USED"}
EventLeft == {"NEW", "RESALE"}
TypeTotal == {"NEW", "SOLD", "NOT_FOR_SALE", "RESALE", "USED"}
TypeSold == {"SOLD", "USED", "RESALE"}

Count(statuses) == Cardinality({t \in Ticket : tickets[t] \in statuses})

Rank(stage) ==
    CASE stage = "DRAFT" -> 0
      [] stage = "PREVIEW" -> 1
      [] stage = "ONSALE" -> 2
      [] stage = "SALE_ENDED" -> 3
      [] stage = "LIVE" -> 4
      [] OTHER -> 5

Begin(pc) ==
    /\ call.pc = "idle"
    /\ call' = [NoCall EXCEPT !.pc = pc, !.row = event]
    /\ answer' = NoAnswer
    /\ UNCHANGED <<now, world, shown>>

\* The end of a request that shows the stage of the event it read as row.
ShowStage(row, total, part) ==
    \E view \in {w \in Views : w.row = row /\ w.from >= now} :
        /\ answer' =
             [NoAnswer EXCEPT !.row = row, !.kind = "stage",
                !.stage = view.stage, !.checkable = view.checkable,
                !.from = view.from, !.to = view.to, !.total = total, !.part = part]
        /\ shown' = Rank(view.stage)
        /\ now' = view.to
        /\ call' = NoCall
        /\ UNCHANGED world

\* OrganizerService.getEvents: each stage right after the rows were read.
ReadStage == call.pc = "idle" /\ ShowStage(event, 0, 0)

\* StaffService.events does so for the events on the caller's roster; a draft
\* with staff is shown as well.
StaffEvents == call.pc = "idle" /\ ShowStage(event, 0, 0)

\* OrganizerService.getEvent looks for the event's last seat before the stage.
GetOwnEvent == Begin("own.seats")

OwnSeats ==
    /\ call.pc = "own.seats"
    /\ ShowStage(call.row, 0, 0)

\* StaffService.checkInVerify, of a ticket of the event; checkIn starts with the
\* same tests.  The caller is looked up before the clock is; those of owner and
\* status follow in TicketTrading.
CheckInVerify == Begin("gate.time")

GateTime ==
    /\ call.pc = "gate.time"
    /\ answer' = [NoAnswer EXCEPT !.row = call.row, !.kind = "gate",
                    !.checkable = GateOpen(call.row, now),
                    !.from = now, !.to = now]
    /\ call' = NoCall
    /\ UNCHANGED <<now, world, shown>>

\* MarketplaceService.getEvents and getEvent; the client is shown the number
\* of tickets left, and that of the resold ones among them.
GetEvent == event.status \in {"PREVIEW", "ACTIVE"} /\ Begin("event.total")

CountTotal ==
    /\ call.pc = "event.total"
    /\ call' = [call EXCEPT !.pc = "event.left", !.total = Count(EventTotal)]
    /\ answer' = NoAnswer
    /\ UNCHANGED <<now, world, shown>>

CountLeft ==
    /\ call.pc = "event.left"
    /\ call' = [call EXCEPT !.pc = "event.resale", !.part = Count(EventLeft)]
    /\ answer' = NoAnswer
    /\ UNCHANGED <<now, world, shown>>

\* The counter of resold tickets only comes last; then nothing is awaited.
CountResale ==
    /\ call.pc = "event.resale"
    /\ ShowStage(call.row, call.total, call.part)

\* getEventTicketTypes, of MarketplaceService for an ACTIVE event only.
GetEventTicketTypes == Begin("types.total")

CountTypeTotal ==
    /\ call.pc = "types.total"
    /\ call' = [call EXCEPT !.pc = "types.sold", !.total = Count(TypeTotal)]
    /\ answer' = NoAnswer
    /\ UNCHANGED <<now, world, shown>>

CountTypeSold ==
    /\ call.pc = "types.sold"
    /\ answer' = [kind |-> "counts", row |-> call.row, stage |-> "none",
                  checkable |-> FALSE, listed |-> FALSE, from |-> 0, to |-> 0,
                  total |-> call.total, part |-> Count(TypeSold)]
    /\ call' = NoCall
    /\ UNCHANGED <<now, world, shown>>

\* getEventTickets: refused once sales have stopped.
GetEventTickets ==
    /\ call.pc = "idle"
    /\ event.status = "ACTIVE"
    /\ answer' = [NoAnswer EXCEPT !.row = event, !.kind = "listing",
                    !.listed = ListsTickets(event, now),
                    !.from = now, !.to = now]
    /\ UNCHANGED <<now, world, call, shown>>

-----------------------------------------------------------------------------

\* The organizer's requests that write the event, and those that write tickets.
Reschedule == \E x \in Schedule : UpdateEvent(x)
Announce == PreviewEvent \/ PublishEvent

Offer ==
    \/ \E t \in Ticket, st \in Unsold : AddSeat(t, st) \/ EditTicket(t, st)
    \/ RemoveSeats

Sell ==
    \E t \in Ticket : PlaceOrder(t) \/ \E st \in Circulating : Trade(t, st)

Read ==
    \/ ReadStage \/ StaffEvents
    \/ GetOwnEvent \/ OwnSeats
    \/ CheckInVerify \/ GateTime
    \/ GetEvent \/ CountTotal \/ CountLeft \/ CountResale
    \/ GetEventTicketTypes \/ CountTypeTotal \/ CountTypeSold
    \/ GetEventTickets

Next == Tick \/ Reschedule \/ Announce \/ Offer \/ Sell \/ Read

Spec == Init /\ [][Next]_vars

-----------------------------------------------------------------------------
(* Properties *)

\* The stage of an event at one instant: the first of its times it is before.
InstantStage(e, t) ==
    LET x == e.times
    IN  IF e.status # "ACTIVE" THEN e.status
        ELSE IF t < x.release THEN "PREVIEW"
        ELSE IF t < SaleEnd(x) THEN "ONSALE"
        ELSE IF t < x.start THEN "SALE_ENDED"
        ELSE IF t < x.end THEN "LIVE"
        ELSE "ENDED"

\* Rows, the request and its answer have their types.
TypeOK ==
    /\ now \in 0 .. Horizon
    /\ event \in EventRow
    /\ launched \in BOOLEAN
    /\ tickets \in [Ticket -> TicketStatus]
    /\ ordered \subseteq Ticket
    /\ call \in CallRecord
    /\ answer \in AnswerRecord
    /\ shown \in 0 .. 5
    /\ late \in BOOLEAN
    /\ overtaken \subseteq Ticket

\* Whatever the order of an event's times, and whatever time passes between the
\* eight readings of the clock, getEventStage answers, and answers the stage
\* the event had at an instant in between.
StageOfAnInstant ==
    answer.kind = "stage" =>
        \E t \in answer.from .. answer.to :
            answer.stage = InstantStage(answer.row, t)

\* A client sees an event go back to an earlier stage only after updateEvent or
\* previewEvent, having found a draft, wrote over an event that was none any
\* more; to be shown the stage of a row read before it was published, or time
\* passing between tests, does not suffice.
StageGoesForward == [][~late' => shown' >= shown]_vars

\* Two endpoints that look at the clock once more agree with the stage: no
\* event that has ended is checkable, the gate is open while it is, and a LIVE
\* event is checkable unless it has just ended.  The gate judges by a row it read
\* before: it turns a guest away as too late from an event that is LIVE by now
\* only if that row was a draft, or its times were written over although it was
\* none any more.
CheckableAgrees ==
    LET x == answer.row.times
    IN  /\ answer.kind = "stage" =>
             /\ answer.checkable =>
                  answer.stage # "ENDED" /\ GateOpen(answer.row, answer.from)
             /\ answer.stage = "LIVE" /\ ~answer.checkable /\ x.checkIn >= 0 =>
                  answer.to >= x.end
        /\ answer.kind = "gate" /\ ~answer.checkable
             /\ answer.row.status # "DRAFT" /\ ~late =>
               InstantStage(event, answer.from) # "LIVE"

\* The tickets of an event that does not end before it starts are listed as
\* long as its stage is ONSALE, although the two tests count from other times.
OnSaleIsListed ==
    LET x == answer.row.times
    IN  answer.kind = "listing" /\ ~answer.listed /\ x.start <= x.end =>
            InstantStage(answer.row, answer.from) # "ONSALE"

\* The counters of an event on sale are read one by one.  Tickets traded in
\* between never make more of them left, or sold, than there are in total; each
\* ticket an organizer edited or added although it was on sale or ordered makes
\* up for at most one.
CountsAddUp ==
    answer.row.status = "ACTIVE" =>
        answer.part <= answer.total + Cardinality(overtaken)

=============================================================================
