--------------------------- MODULE TicketTrading ---------------------------
(***************************************************************************)
(* The life of a ticket once it is on sale: checkout, payment reports,     *)
(* resale listings, check-in codes and admission at the gate               *)
(* (UserService, StaffService.checkIn and the ticket-signing half of       *)
(* SolanaService).                                                         *)
(*                                                                         *)
(* The backend is one Node process.  A handler runs without interruption   *)
(* between two awaits, so each action below is one such segment: at most   *)
(* one autocommitted database statement, followed by the synchronous code  *)
(* that inspects its result.  What a handler remembers across an await is  *)
(* the record calls[s]; other handlers run in between and the record may   *)
(* be stale when it is used.                                               *)
(***************************************************************************)
EXTENDS Naturals, FiniteSets

CONSTANTS
    Customer,       \* rows of table Customer
    Staff,          \* the customers on the event's staff roster
    Ticket,         \* rows of table EventTicket (one event)
    Order,          \* identifiers EventTicketOrder rows may get
    Slot,           \* requests that may be in flight together
    Price,          \* asking prices
    Token,          \* NFT token identifiers reported by clients
    Null,           \* a report's token sent as JSON null (or as "")
    None,           \* SQL NULL / JavaScript undefined
    OwnOrdersOnly,  \* do clients report payments of their own orders only?
    Faults,         \* may a handler be cut short (exception or restart)?
    Inputs,         \* the requests and outside events of an instance
    MaxTimes,       \* bound on resaleTimes
    MaxAdmissions   \* bound on the admissions counted per ticket

AllInputs ==
    {"checkout", "pay", "resale", "unlist", "updateOrder", "checkIn", "scan",
     "updateCustomer", "time"}

ASSUME ConstantsAssumption ==
    /\ None \notin Customer \cup Ticket \cup Order \cup Price \cup Token
    /\ Null \notin Token \cup {None}
    /\ Staff \subseteq Customer
    /\ OwnOrdersOnly \in BOOLEAN
    /\ Faults \in BOOLEAN
    /\ Inputs \subseteq AllInputs

VARIABLES
    tickets,    \* table EventTicket
    orders,     \* table EventTicketOrder; status "FREE" is an unused id
    active,     \* customers whose status is ACTIVE
    ended,      \* has the event's endTime passed?
    codes,      \* unexpired check-in codes in customers' hands
    calls,      \* the handler running in each slot
    offers,     \* history: signed transactions returned, per order
    admissions  \* history: how often each ticket was admitted

database == <<tickets, orders, active>>
vars == <<tickets, orders, active, ended, codes, calls, offers, admissions>>

-----------------------------------------------------------------------------
(* Rows and handler records *)

TicketStatus ==
    {"NEW", "LOCK", "SOLD", "USED", "RESALE", "NOT_EXIST", "NOT_FOR_SALE"}

\* Statuses of a ticket that somebody has bought.
Circulating == {"SOLD", "RESALE", "USED"}

\* The columns trading reads or that its properties mention.
TicketRow ==
    [status : TicketStatus, owner : Customer \cup {None}, price : Price,
     times : Nat, last : Order \cup {None}, nft : Token \cup {None}]

OrderStatus ==
    {"NEW", "PENDING", "PAID", "TRANSFERING", "TRANSFERED", "TIMEOUT",
     "TRANSFERFAILED"}

\* Statuses of an order whose payment was reported.
Reported == {"PAID", "TRANSFERED"}

OrderRow ==
    [status : OrderStatus \cup {"FREE"}, ticket : Ticket \cup {None},
     buyer : Customer \cup {None}, seller : Customer \cup {None},
     price : Price \cup {None}, txHash : BOOLEAN]

FreeOrder ==
    [status |-> "FREE", ticket |-> None, buyer |-> None, seller |-> None,
     price |-> None, txHash |-> FALSE]

CheckoutPc == {"checkout.read", "checkout.sign", "checkout.create"}
SettlePc ==
    {"settle.read", "settle.paid", "settle.look", "settle.write", "settle.done"}
ScanPc == {"scan.read", "scan.staff", "scan.holder", "scan.write"}
Pc == CheckoutPc \cup SettlePc \cup ScanPc \cup
    {"idle", "resale.read", "resale.write", "unlist.read", "unlist.write",
     "pay.read", "pay.sign", "code.read"}

\* What a handler holds between two awaits; pc names its next statement.
CallRecord ==
    [pc : Pc,
     who : Customer \cup {None},      \* the authenticated caller
     ticket : Ticket \cup {None},
     order : Order \cup {None},
     holder : Customer \cup {None},   \* owner read earlier, or named in a code
     price : Price \cup {None},       \* price read earlier, or the asking price
     quote : Price \cup {None},       \* price inside the signed transaction
     times : Nat,                     \* resaleTimes read earlier
     token : Token \cup {None, Null}]

Idle ==
    [pc |-> "idle", who |-> None, ticket |-> None, order |-> None,
     holder |-> None, price |-> None, quote |-> None, times |-> 0,
     token |-> None]

Code == [ticket : Ticket, customer : Customer]

Offer == [order : Order, price : Price \cup {None}]

-----------------------------------------------------------------------------
(* Initial state: tickets as the organizer's endpoints create them. *)

Init ==
    /\ tickets \in
         [Ticket ->
            {[status |-> st, owner |-> None, price |-> p, times |-> 0,
              last |-> None, nft |-> None] :
                st \in {"NEW", "NOT_FOR_SALE", "NOT_EXIST"}, p \in Price}]
    /\ orders = [o \in Order |-> FreeOrder]
    /\ active = Customer
    /\ ended = FALSE
    /\ codes = {}
    /\ calls = [s \in Slot |-> Idle]
    /\ offers = {}
    /\ admissions = [t \in Ticket |-> 0]

-----------------------------------------------------------------------------
(* Helpers on calls *)

\* A handler starts in slot s with record call.
Begin(s, call) ==
    /\ calls[s] = Idle
    /\ calls' = [calls EXCEPT ![s] = call]

\* The handler in slot s goes on with record call, or ends (it returns or
\* throws: either way nothing of it is left in the process).
Continue(s, call) == calls' = [calls EXCEPT ![s] = call]
Return(s) == Continue(s, Idle)

\* The authenticated caller's own row is read and must be ACTIVE.
ValidCustomer(c) == c \in active

Free == {o \in Order : orders[o].status = "FREE"}
Running(pcs) == {s \in Slot : calls[s].pc \in pcs}

-----------------------------------------------------------------------------
(* checkoutTicket *)

Sellable(row) == row.status \in {"NEW", "RESALE"}

\* Bounded by the order ids left.
Checkout(s, c, t) ==
    /\ ValidCustomer(c)
    /\ Cardinality(Running(CheckoutPc)) < Cardinality(Free)
    /\ Begin(s, [Idle EXCEPT !.pc = "checkout.read", !.who = c, !.ticket = t])
    /\ UNCHANGED <<database, ended, codes, offers, admissions>>

CheckoutRead(s) ==
    LET call == calls[s]
        row  == tickets[call.ticket]
    IN  /\ call.pc = "checkout.read"
        /\ \/ /\ Sellable(row)
              /\ Continue(s, [call EXCEPT !.pc = "checkout.sign",
                                !.holder = row.owner, !.price = row.price])
           \/ /\ ~Sellable(row)
              /\ Return(s)
        /\ UNCHANGED <<database, ended, codes, offers, admissions>>

\* SolanaService.mintPartialSign reads the ticket again and puts the price it
\* finds into the transaction; its other awaits read only the chain.
CheckoutSign(s) ==
    LET call == calls[s]
    IN  /\ call.pc = "checkout.sign"
        /\ Continue(s, [call EXCEPT !.pc = "checkout.create",
                          !.quote = tickets[call.ticket].price])
        /\ UNCHANGED <<database, ended, codes, offers, admissions>>

\* Mutant: the order gets a ticket's status.
NewOrderLocked(call) ==
    [status |-> "LOCK", ticket |-> call.ticket, buyer |-> call.who,
     seller |-> call.holder, price |-> call.price, txHash |-> FALSE]

\* The row is built from the snapshot of CheckoutRead; the ticket is not locked.
NewOrder(call) ==
    [status |-> "NEW", ticket |-> call.ticket, buyer |-> call.who,
     seller |-> call.holder, price |-> call.price, txHash |-> FALSE]

CheckoutCreate(s) ==
    LET call == calls[s]
    IN  /\ call.pc = "checkout.create"
        /\ \E o \in Free :
             /\ orders' = [orders EXCEPT ![o] = NewOrder(call)]
             /\ offers' = offers \cup {[order |-> o, price |-> call.quote]}
        /\ Return(s)
        /\ UNCHANGED <<tickets, active, ended, codes, admissions>>

-----------------------------------------------------------------------------
(* pay: a fresh transaction for an order not yet paid *)

\* Mutant: the status test is dropped.
PayableAgain(row, c) == row.buyer = c

Payable(row, c) == row.status = "NEW" /\ row.buyer = c /\ ~row.txHash

Pay(s, c, o) ==
    /\ ValidCustomer(c)
    /\ orders[o].status # "FREE"
    /\ Begin(s, [Idle EXCEPT !.pc = "pay.read", !.who = c, !.order = o])
    /\ UNCHANGED <<database, ended, codes, offers, admissions>>

\* The ticket row read next exists (orders keep it by foreign key) and is not
\* inspected: the check of status LOCK is commented out.
PayRead(s) ==
    LET call == calls[s]
        row  == orders[call.order]
    IN  /\ call.pc = "pay.read"
        /\ \/ /\ Payable(row, call.who)
              /\ Continue(s, [call EXCEPT !.pc = "pay.sign",
                                !.ticket = row.ticket])
           \/ /\ ~Payable(row, call.who)
              /\ Return(s)
        /\ UNCHANGED <<database, ended, codes, offers, admissions>>

PaySign(s) ==
    LET call == calls[s]
    IN  /\ call.pc = "pay.sign"
        /\ offers' = offers \cup
             {[order |-> call.order, price |-> tickets[call.ticket].price]}
        /\ Return(s)
        /\ UNCHANGED <<database, ended, codes, admissions>>

-----------------------------------------------------------------------------
(* resale and unlist *)

\* Mutant: the status test is dropped.
OwnedBy(row, c) == row.owner = c

Resellable(row, c) == row.owner = c /\ row.status \in {"SOLD", "RESALE"}
Listed(row, c) == row.owner = c /\ row.status = "RESALE"

Resale(s, c, t, p) ==
    /\ ValidCustomer(c)
    /\ Begin(s, [Idle EXCEPT !.pc = "resale.read", !.who = c, !.ticket = t,
                             !.price = p])
    /\ UNCHANGED <<database, ended, codes, offers, admissions>>

ResaleRead(s) ==
    LET call == calls[s]
        row  == tickets[call.ticket]
    IN  /\ call.pc = "resale.read"
        /\ \/ /\ Resellable(row, call.who)
              /\ Continue(s, [call EXCEPT !.pc = "resale.write"])
           \/ /\ ~Resellable(row, call.who)
              /\ Return(s)
        /\ UNCHANGED <<database, ended, codes, offers, admissions>>

\* The update names the row by id alone: neither owner nor status is tested
\* again.  previousPrice is written too and read by no handler.
ResaleWrite(s) ==
    LET call == calls[s]
    IN  /\ call.pc = "resale.write"
        /\ tickets' = [tickets EXCEPT ![call.ticket].status = "RESALE",
                                      ![call.ticket].price = call.price]
        /\ Return(s)
        /\ UNCHANGED <<orders, active, ended, codes, offers, admissions>>

Unlist(s, c, t) ==
    /\ ValidCustomer(c)
    /\ Begin(s, [Idle EXCEPT !.pc = "unlist.read", !.who = c, !.ticket = t])
    /\ UNCHANGED <<database, ended, codes, offers, admissions>>

UnlistRead(s) ==
    LET call == calls[s]
        row  == tickets[call.ticket]
    IN  /\ call.pc = "unlist.read"
        /\ \/ /\ Listed(row, call.who)
              /\ Continue(s, [call EXCEPT !.pc = "unlist.write"])
           \/ /\ ~Listed(row, call.who)
              /\ Return(s)
        /\ UNCHANGED <<database, ended, codes, offers, admissions>>

\* Mutant: the ticket goes back on sale as new.
UnlistWriteNew(s) ==
    LET call == calls[s]
    IN  /\ call.pc = "unlist.write"
        /\ tickets' = [tickets EXCEPT ![call.ticket].status = "NEW"]
        /\ Return(s)
        /\ UNCHANGED <<orders, active, ended, codes, offers, admissions>>

\* The asking price stays on the ticket.
UnlistWrite(s) ==
    LET call == calls[s]
    IN  /\ call.pc = "unlist.write"
        /\ tickets' = [tickets EXCEPT ![call.ticket].status = "SOLD"]
        /\ Return(s)
        /\ UNCHANGED <<orders, active, ended, codes, offers, admissions>>

-----------------------------------------------------------------------------
(* updateOrder: a client reports that its transaction is on chain *)

\* The code accepts any caller; OwnOrdersOnly restricts what clients send.
\* An unknown order id makes the first update throw and changes nothing.
UpdateOrder(s, c, o, k) ==
    /\ ValidCustomer(c)
    /\ orders[o].status # "FREE"
    /\ OwnOrdersOnly => c = orders[o].buyer
    /\ tickets[orders[o].ticket].times + Cardinality(Running(SettlePc)) < MaxTimes
    /\ Begin(s, [Idle EXCEPT !.pc = "settle.read", !.who = c, !.order = o,
                             !.token = k])
    /\ UNCHANGED <<database, ended, codes, offers, admissions>>

\* Order and ticket.resaleTimes are read together; nothing is checked.
SettleRead(s) ==
    LET call == calls[s]
        t    == orders[call.order].ticket
    IN  /\ call.pc = "settle.read"
        /\ Continue(s, [call EXCEPT !.pc = "settle.paid", !.ticket = t,
                          !.times = tickets[t].times])
        /\ UNCHANGED <<database, ended, codes, offers, admissions>>

SettlePaid(s) ==
    LET call == calls[s]
    IN  /\ call.pc = "settle.paid"
        /\ orders' = [orders EXCEPT ![call.order].status = "PAID",
                                    ![call.order].txHash = TRUE]
        /\ Continue(s, [call EXCEPT !.pc = "settle.look"])
        /\ UNCHANGED <<tickets, active, ended, codes, offers, admissions>>

\* Mutant: the token a client reports wins over the one found on the ticket.
SettleLookReported(s) ==
    LET call == calls[s]
    IN  /\ call.pc = "settle.look"
        /\ Continue(s, [call EXCEPT !.pc = "settle.write"])
        /\ UNCHANGED <<database, ended, codes, offers, admissions>>

\* The ticket is read a second time; the token found on it, if any, is kept.
SettleLook(s) ==
    LET call == calls[s]
        nft  == tickets[call.ticket].nft
    IN  /\ call.pc = "settle.look"
        /\ Continue(s, [call EXCEPT !.pc = "settle.write",
                          !.token = IF nft # None THEN nft ELSE call.token])
        /\ UNCHANGED <<database, ended, codes, offers, admissions>>

\* Mutants: the last order is not recorded; an owner is kept.
HandedOverNoOrder(row, call) ==
    [row EXCEPT !.status = "SOLD", !.owner = call.who, !.times = call.times + 1]
HandedOverOnce(row, call) ==
    [row EXCEPT !.status = "SOLD", !.times = call.times + 1, !.last = call.order,
                !.owner = IF row.owner = None THEN call.who ELSE row.owner]

\* What a column holds after an update to value k: undefined leaves it alone,
\* null empties it.
Column(old, k) == CASE k = None -> old
                    [] k = Null -> None
                    [] OTHER    -> k

\* The ticket as the report leaves it.
HandedOver(row, call) ==
    [row EXCEPT !.status = "SOLD", !.owner = call.who,
                !.times = call.times + 1, !.last = call.order,
                !.nft = Column(@, call.token)]

SettleWrite(s) ==
    LET call == calls[s]
    IN  /\ call.pc = "settle.write"
        /\ tickets' = [tickets EXCEPT ![call.ticket] = HandedOver(@, call)]
        /\ Continue(s, [call EXCEPT !.pc = "settle.done"])
        /\ UNCHANGED <<orders, active, ended, codes, offers, admissions>>

\* Mutant: an order overtaken by a competing report is not completed.
SettleDoneIfLast(s) ==
    LET call == calls[s]
    IN  /\ call.pc = "settle.done"
        /\ orders' = IF tickets[call.ticket].last = call.order
                     THEN [orders EXCEPT ![call.order].status = "TRANSFERED"]
                     ELSE orders
        /\ Return(s)
        /\ UNCHANGED <<tickets, active, ended, codes, offers, admissions>>

SettleDone(s) ==
    LET call == calls[s]
    IN  /\ call.pc = "settle.done"
        /\ orders' = [orders EXCEPT ![call.order].status = "TRANSFERED"]
        /\ Return(s)
        /\ UNCHANGED <<tickets, active, ended, codes, offers, admissions>>

-----------------------------------------------------------------------------
(* User checkIn: the owner obtains a code; Staff checkIn: the gate scans it *)

\* Mutants: the owner test, the status test is dropped.
AdmissibleUnowned(row, c) == row.status = "SOLD"
AdmissibleAgain(row, c) == row.owner = c

Admissible(row, c) == row.owner = c /\ row.status = "SOLD"

RequestCode(s, c, t) ==
    /\ ValidCustomer(c)
    /\ Begin(s, [Idle EXCEPT !.pc = "code.read", !.who = c, !.ticket = t])
    /\ UNCHANGED <<database, ended, codes, offers, admissions>>

IssueCode(s) ==
    LET call == calls[s]
    IN  /\ call.pc = "code.read"
        /\ codes' =
             IF Admissible(tickets[call.ticket], call.who)
             THEN codes \cup {[ticket |-> call.ticket, customer |-> call.who]}
             ELSE codes
        /\ Return(s)
        /\ UNCHANGED <<database, ended, offers, admissions>>

\* A code is a token signed for five minutes; selling the ticket does not
\* revoke it.
ExpireCode(code) ==
    /\ code \in codes
    /\ codes' = codes \ {code}
    /\ UNCHANGED <<database, ended, calls, offers, admissions>>

\* verifyAsync accepts the code.  Bounded by MaxAdmissions.
Scan(s, c, code) ==
    /\ code \in codes
    /\ admissions[code.ticket] + Cardinality(Running(ScanPc)) < MaxAdmissions
    /\ Begin(s, [Idle EXCEPT !.pc = "scan.read", !.who = c,
                   !.ticket = code.ticket, !.holder = code.customer])
    /\ UNCHANGED <<database, ended, codes, offers, admissions>>

\* The code tests owner and status of this snapshot after further reads; as
\* nothing is written before, a failing snapshot ends the call here.
ScanRead(s) ==
    LET call == calls[s]
        row  == tickets[call.ticket]
    IN  /\ call.pc = "scan.read"
        /\ \/ /\ Admissible(row, call.holder)
              /\ Continue(s, [call EXCEPT !.pc = "scan.staff"])
           \/ /\ ~Admissible(row, call.holder)
              /\ Return(s)
        /\ UNCHANGED <<database, ended, codes, offers, admissions>>

\* Is there a row of EventStaff?  The roster does not change here.
IsEventStaff(c) == c \in Staff

\* assertValidEventStaff, then the comparison with endTime.
GateOpenTo(c) == ValidCustomer(c) /\ IsEventStaff(c) /\ ~ended

ScanStaff(s) ==
    LET call == calls[s]
    IN  /\ call.pc = "scan.staff"
        /\ \/ /\ GateOpenTo(call.who)
              /\ Continue(s, [call EXCEPT !.pc = "scan.holder"])
           \/ /\ ~GateOpenTo(call.who)
              /\ Return(s)
        /\ UNCHANGED <<database, ended, codes, offers, admissions>>

ScanHolder(s) ==
    LET call == calls[s]
    IN  /\ call.pc = "scan.holder"
        /\ \/ /\ ValidCustomer(call.holder)
              /\ Continue(s, [call EXCEPT !.pc = "scan.write"])
           \/ /\ ~ValidCustomer(call.holder)
              /\ Return(s)
        /\ UNCHANGED <<database, ended, codes, offers, admissions>>

\* Unconditional: the row is named by id alone.
ScanWrite(s) ==
    LET call == calls[s]
    IN  /\ call.pc = "scan.write"
        /\ tickets' = [tickets EXCEPT ![call.ticket].status = "USED"]
        /\ admissions' = [admissions EXCEPT ![call.ticket] = @ + 1]
        /\ Return(s)
        /\ UNCHANGED <<orders, active, ended, codes, offers>>

-----------------------------------------------------------------------------
(* Surroundings *)

\* ManageService.updateCustomer, by an administrator.
UpdateCustomer(c) ==
    /\ active' = IF c \in active THEN active \ {c} ELSE active \cup {c}
    /\ UNCHANGED <<tickets, orders, ended, codes, calls, offers, admissions>>

EventEnds ==
    /\ ~ended
    /\ ended' = TRUE
    /\ UNCHANGED <<database, codes, calls, offers, admissions>>

\* A query or an RPC of the handler throws, or the process restarts: what the
\* handler wrote so far stays.  A restart is one such step for every slot.
Abort(s) ==
    /\ Faults
    /\ calls[s] # Idle
    /\ Return(s)
    /\ UNCHANGED <<database, ended, codes, offers, admissions>>

-----------------------------------------------------------------------------
(* Specification *)

\* The next segment of the handler in slot s.
Proceed(s) ==
    \/ CheckoutRead(s) \/ CheckoutSign(s) \/ CheckoutCreate(s)
    \/ PayRead(s) \/ PaySign(s)
    \/ ResaleRead(s) \/ ResaleWrite(s)
    \/ UnlistRead(s) \/ UnlistWrite(s)
    \/ SettleRead(s) \/ SettlePaid(s) \/ SettleLook(s) \/ SettleWrite(s)
    \/ SettleDone(s)
    \/ IssueCode(s)
    \/ ScanRead(s) \/ ScanStaff(s) \/ ScanHolder(s) \/ ScanWrite(s)

\* A request arrives in slot s.
Arrive(s) ==
    \/ /\ "checkout" \in Inputs
       /\ \E c \in Customer, t \in Ticket : Checkout(s, c, t)
    \/ /\ "pay" \in Inputs
       /\ \E c \in Customer, o \in Order : Pay(s, c, o)
    \/ /\ "resale" \in Inputs
       /\ \E c \in Customer, t \in Ticket, p \in Price : Resale(s, c, t, p)
    \/ /\ "unlist" \in Inputs
       /\ \E c \in Customer, t \in Ticket : Unlist(s, c, t)
    \/ /\ "updateOrder" \in Inputs
       /\ \E c \in Customer, o \in Order, k \in Token \cup {None, Null} :
            UpdateOrder(s, c, o, k)
    \/ /\ "checkIn" \in Inputs
       /\ \E c \in Customer, t \in Ticket : RequestCode(s, c, t)
    \/ /\ "scan" \in Inputs
       /\ \E c \in Customer, code \in Code : Scan(s, c, code)

\* What happens outside the handlers.
Outside ==
    \/ /\ "updateCustomer" \in Inputs
       /\ \E c \in Customer : UpdateCustomer(c)
    \/ /\ "time" \in Inputs
       /\ EventEnds \/ \E code \in Code : ExpireCode(code)

Next == Outside \/ \E s \in Slot : Arrive(s) \/ Proceed(s) \/ Abort(s)

Spec == Init /\ [][Next]_vars

\* The event loop resumes every handler whose query or RPC has answered.
FairSpec == Spec /\ \A s \in Slot : WF_vars(Proceed(s))

-----------------------------------------------------------------------------
(* The lists a customer is shown, each one query: tickets, upcomingTickets and *)
(* resales.                                                                    *)

\* Mutant: used tickets are only looked for on the list of upcoming ones.
TicketsOfUpcoming(c) ==
    {t \in Ticket : tickets[t].owner = c /\ tickets[t].status = "SOLD"}

TicketsOf(c) ==
    {t \in Ticket : tickets[t].owner = c /\ tickets[t].status \in {"SOLD", "USED"}}

UpcomingOf(c) ==
    {t \in Ticket : tickets[t].owner = c /\ tickets[t].status = "SOLD"}

ResalesOf(c) ==
    {t \in Ticket : tickets[t].owner = c /\ tickets[t].status \in {"RESALE", "LOCK"}}

\* ordersBuyer and ordersSeller.
OrdersBuyer(c) == {o \in Order : orders[o].buyer = c}

OrdersSeller(c) == {o \in Order : orders[o].seller = c}

-----------------------------------------------------------------------------
(* Properties *)

\* Every row, handler record and history variable has its type.
TypeOK ==
    /\ tickets \in [Ticket -> TicketRow]
    /\ orders \in [Order -> OrderRow]
    /\ active \subseteq Customer
    /\ ended \in BOOLEAN
    /\ codes \subseteq Code
    /\ calls \in [Slot -> CallRecord]
    /\ offers \subseteq Offer
    /\ admissions \in [Ticket -> Nat]

\* A ticket is in circulation exactly when a reported order for that very
\* ticket put it there: a ticket nobody bought has no owner, no order, no sale
\* count and no token, however listing, scanning and payment reports overlap.
\* In particular the unique column lastOrderId can never collide.
CirculationBacked ==
    \A t \in Ticket :
        LET row == tickets[t]
        IN  IF row.status \in Circulating
            THEN /\ row.owner \in Customer
                 /\ row.last \in Order
                 /\ orders[row.last].ticket = t
                 /\ orders[row.last].status \in Reported
            ELSE /\ row.owner = None
                 /\ row.last = None
                 /\ row.times = 0
                 /\ row.nft = None

\* A call naming a circulating ticket with each of these statements ahead.
HoldsCirculating ==
    {"resale.write", "unlist.write", "scan.staff", "scan.holder", "scan.write",
     "settle.done"}

\* What a handler learned before an await and relies on afterwards is still so,
\* although others ran in between: the ticket it will update by id alone is
\* still in circulation, its order still exists, still names that ticket and,
\* once reported, still is.  (Owner, price and count may well have changed.)
CallBacked(call) ==
    /\ call.pc # "idle" => call.who \in Customer
    /\ call.pc \in CheckoutPc \cup ScanPc \cup {"resale.read", "resale.write",
         "unlist.read", "unlist.write", "code.read"} => call.ticket \in Ticket
    /\ call.pc \in {"resale.read", "resale.write"} => call.price \in Price
    /\ call.pc \in HoldsCirculating =>
         tickets[call.ticket].status \in Circulating
    /\ call.pc \in SettlePc \cup {"pay.read", "pay.sign"} =>
         call.order \in Order \ Free
    /\ call.pc \in (SettlePc \ {"settle.read"}) \cup {"pay.sign"} =>
         call.ticket = orders[call.order].ticket
    /\ call.pc \in {"settle.look", "settle.write", "settle.done"} =>
         orders[call.order].status \in Reported

CallsBacked == \A s \in Slot : CallBacked(calls[s])

\* updateOrder completes an order only after its ticket was handed over, and
\* nothing takes the ticket out of circulation again: a completed order always
\* belongs to a ticket that somebody owns.
TransferedMeansHeld ==
    \A o \in Order :
        orders[o].status = "TRANSFERED" =>
            tickets[orders[o].ticket].status \in Circulating

\* The lists miss no ticket, however handlers overlap: one that was ever paid for
\* is on a list of exactly one customer, another one on nobody's, and a ticket
\* that is listed but no longer upcoming was admitted.
PaidTicketsAreListed ==
    \A t \in Ticket :
        LET holders == {c \in Customer : t \in TicketsOf(c) \cup ResalesOf(c)}
        IN  /\ IF tickets[t].last # None
               THEN holders = {tickets[t].owner}
               ELSE holders = {}
            /\ (\E c \in holders : t \in TicketsOf(c) \ UpcomingOf(c))
                 => admissions[t] > 0

\* While clients report only their own orders, the order that gave a ticket to
\* its owner is among the owner's purchases: overlapping reports of competing
\* orders never mix the owner of one with the order of the other.
OwnerIsLastBuyer ==
    OwnOrdersOnly =>
        \A t \in Ticket :
            tickets[t].last # None =>
                tickets[t].last \in OrdersBuyer(tickets[t].owner)

HasPaidFor(c, t) ==
    \E o \in Order :
        /\ orders[o].ticket = t
        /\ orders[o].buyer = c
        /\ orders[o].status \in Reported

\* While clients report only their own orders, whoever finds an order among
\* their sales or is named in a check-in code once paid for that ticket, even
\* when the row the handler read is no longer current.
SellersHadPaid ==
    OwnOrdersOnly =>
        /\ \A c \in Customer : \A o \in OrdersSeller(c) :
             HasPaidFor(c, orders[o].ticket)
        /\ \A code \in codes : HasPaidFor(code.customer, code.ticket)

\* A ticket has a token, and no report that looked before it was stored still
\* carries another one (or null) to be written over it.
TokenSettled(t) ==
    /\ tickets[t].nft # None
    /\ \A s \in Slot :
         calls[s].pc = "settle.write" /\ calls[s].ticket = t
             => calls[s].token \in {None, tickets[t].nft}

\* Two reports that overlap may both have found no token, and the later write
\* may then replace or erase what the first one stored.  Once those that looked
\* before are through, the token is settled for good: whatever later reports
\* carry, null included, and however they overlap, it is never replaced or lost.
TokenStaysSettled ==
    [][\A t \in Ticket :
         TokenSettled(t) =>
            TokenSettled(t)' /\ tickets'[t].nft = tickets[t].nft]_vars

\* A ticket was admitted, and no handler that read it before that still has a
\* listing, an unlisting or another admission of it to write.
Spent(t) ==
    /\ tickets[t].status = "USED"
    /\ \A s \in Slot :
         calls[s].ticket = t =>
            calls[s].pc \notin {"resale.write", "unlist.write", "scan.staff",
                               "scan.holder", "scan.write"}

\* Handlers that overlap an admission may undo it or repeat it, since they write
\* by id what they decided before.  Once they are through, the ticket is used
\* for good, whatever requests follow and however they overlap: it is never
\* listed or admitted again unless a payment report hands it over.
SpentStaysSpent ==
    [][\A t \in Ticket :
         Spent(t) =>
            /\ admissions'[t] = admissions[t]
            /\ \/ Spent(t)'
               \/ \E s \in Slot :
                    /\ calls[s].pc = "settle.write" /\ calls[s].ticket = t
                    /\ calls'[s].pc = "settle.done"]_vars

\* The payment of order o was reported and no transaction for it is being signed.
Paid(o) ==
    /\ orders[o].status \in Reported
    /\ \A s \in Slot : ~(calls[s].pc = "pay.sign" /\ calls[s].order = o)

\* A buyer who asks again for a transaction while the report of the first one
\* arrives may be given a second one to pay.  Once the requests that read the
\* order before the report are answered, nobody is given one any more.
PaidOffersEnd ==
    [][\A o \in Order :
         Paid(o) =>
            /\ Paid(o)'
            /\ \A offer \in offers' \ offers : offer.order # o]_vars

\* Without faults an order is PAID only while updateOrder is between its first
\* and its last write: no overlap of two reports leaves it half done.
PaidIsInFlight ==
    ~Faults =>
        \A o \in Order :
            orders[o].status = "PAID" =>
                \E s \in Slot :
                    /\ calls[s].pc \in {"settle.look", "settle.write", "settle.done"}
                    /\ calls[s].order = o

\* Without faults every reported payment is eventually settled.
PaidGetsTransfered ==
    \A o \in Order :
        orders[o].status = "PAID" ~> orders[o].status = "TRANSFERED"

\* What trading promises in terms of TicketCustody.
Stage(status) ==
    CASE status = "FREE" -> "free"
      [] status = "PAID" -> "reported"
      [] status = "TRANSFERED" -> "closed"
      [] OTHER -> "open"

Custody == INSTANCE TicketCustody WITH
    holder  <- [t \in Ticket |-> tickets[t].owner],
    title   <- [t \in Ticket |-> tickets[t].last],
    subject <- [o \in Order |-> orders[o].ticket],
    stage   <- [o \in Order |-> Stage(orders[o].status)]

\* However handlers overlap or are cut short, each database write is a step of
\* TicketCustody or invisible to it: tickets change hands only on a reported
\* order of their own, owner and last order change together.
ImplementsCustody == Custody!Spec

\* As long as requests do not overlap, a ticket is admitted at most once per
\* payment report: listing, unlisting and fresh codes give no second entry.
AdmissionsBacked == \A t \in Ticket : admissions[t] <= tickets[t].times

-----------------------------------------------------------------------------
(* What comments and descriptions say of the program; see the README *)

\* "After a user first checks out, the ticket is LOCKed and other users cannot
\* buy it": a ticket nobody bought yet has open orders of one buyer only.
FirstCheckoutLocks ==
    \A o1, o2 \in Order :
        /\ orders[o1].status = "NEW"
        /\ orders[o2].status = "NEW"
        /\ orders[o1].ticket = orders[o2].ticket
        /\ tickets[orders[o1].ticket].status \notin Circulating
        => orders[o1].buyer = orders[o2].buyer

=============================================================================
