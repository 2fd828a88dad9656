--------------------- MODULE TicketTradingSerialProofs ----------------------
(***************************************************************************)
(* Proofs about TicketTrading when requests do not overlap: tickets are    *)
(* admitted at most once per payment report.  Overlapping requests break   *)
(* this, as the README tells; requests may be cut short anywhere, and      *)
(* there may be any number of rows.                                        *)
(***************************************************************************)
EXTENDS TicketTradingProofs

\* At most one request is in flight.
Serial == \A r, s \in Slot : r = s

\* Statuses that admit once more.
Unspent == {"SOLD", "RESALE"}

\* What the handler read of its ticket is still so, with the table as parameter.
\* Of overlapping requests only CallBacked holds.
Fresh(k, tk) ==
    /\ k.pc \in {"settle.paid", "settle.look", "settle.write"} =>
         k.times = tk[k.ticket].times
    /\ k.pc = "resale.write" => tk[k.ticket].status \in Unspent
    /\ k.pc = "unlist.write" => tk[k.ticket].status = "RESALE"
    /\ k.pc \in {"scan.staff", "scan.holder", "scan.write"} =>
         tk[k.ticket].status = "SOLD"

CallsFresh == \A s \in Slot : Fresh(calls[s], tickets)

\* A ticket its owner can still use was admitted less often than its sales were
\* reported.
AdmissionsLeft ==
    \A t \in Ticket : tickets[t].status \in Unspent => admissions[t] < tickets[t].times

SInv ==
    /\ IInv
    /\ AdmissionsBacked
    /\ AdmissionsLeft
    /\ CallsFresh

\* With a single slot one record decides.
LEMMA LoneCall ==
    ASSUME Serial, calls \in [Slot -> CallRecord], NEW s \in Slot, NEW k,
           Continue(s, k), Fresh(k, tickets')
    PROVE  CallsFresh'
BY DEF Serial, Continue, CallsFresh

LEMMA LoneReturn ==
    ASSUME Serial, calls \in [Slot -> CallRecord], NEW s \in Slot, Return(s)
    PROVE  CallsFresh'
<1>1. Fresh(Idle, tickets')
  BY DEF Idle, Fresh
<1> QED
  BY <1>1, LoneCall DEF Return

LEMMA Lone ==
    ASSUME SInv, NEW s \in Slot
    PROVE  /\ calls \in [Slot -> CallRecord] /\ calls[s] \in CallRecord
           /\ Fresh(calls[s], tickets) /\ Backed(calls[s], tickets, orders)
           /\ tickets \in [Ticket -> TicketRow] /\ orders \in [Order -> OrderRow]
           /\ admissions \in [Ticket -> Nat]
BY BackedIsCallsBacked DEF SInv, IInv, TypeOK, CallsFresh

LEMMA AdmissionsKept ==
    ASSUME AdmissionsBacked, AdmissionsLeft, UNCHANGED <<tickets, admissions>>
    PROVE  AdmissionsBacked' /\ AdmissionsLeft'
BY DEF AdmissionsBacked, AdmissionsLeft

-----------------------------------------------------------------------------
(* Segments that write no ticket *)

LEMMA ArriveFresh ==
    ASSUME SInv, Serial, NEW s \in Slot, Arrive(s)
    PROVE  CallsFresh' /\ UNCHANGED <<tickets, admissions>>
<1> DEFINE Started(k) == Continue(s, k) /\ Fresh(k, tickets)
<1>1. UNCHANGED <<tickets, admissions>>
  BY Zenon
     DEF Arrive, Checkout, Pay, Resale, Unlist, UpdateOrder, RequestCode, Scan, database
<1>2. \E k : Started(k)
  <2> USE DEF Begin, Continue, Idle, Fresh
  <2>1. ASSUME NEW c \in Customer, NEW t \in Ticket, Checkout(s, c, t)
        PROVE  Started([Idle EXCEPT !.pc = "checkout.read", !.who = c, !.ticket = t])
    BY <2>1 DEF Checkout
  <2>2. ASSUME NEW c \in Customer, NEW o \in Order, Pay(s, c, o)
        PROVE  Started([Idle EXCEPT !.pc = "pay.read", !.who = c, !.order = o])
    BY <2>2 DEF Pay
  <2>3. ASSUME NEW c \in Customer, NEW t \in Ticket, NEW p \in Price,
               Resale(s, c, t, p)
        PROVE  Started([Idle EXCEPT !.pc = "resale.read", !.who = c, !.ticket = t,
                                    !.price = p])
    BY <2>3 DEF Resale
  <2>4. ASSUME NEW c \in Customer, NEW t \in Ticket, Unlist(s, c, t)
        PROVE  Started([Idle EXCEPT !.pc = "unlist.read", !.who = c, !.ticket = t])
    BY <2>4 DEF Unlist
  <2>5. ASSUME NEW c \in Customer, NEW o \in Order, NEW k \in Token \cup {None, Null},
               UpdateOrder(s, c, o, k)
        PROVE  Started([Idle EXCEPT !.pc = "settle.read", !.who = c, !.order = o,
                                    !.token = k])
    BY <2>5 DEF UpdateOrder
  <2>6. ASSUME NEW c \in Customer, NEW t \in Ticket, RequestCode(s, c, t)
        PROVE  Started([Idle EXCEPT !.pc = "code.read", !.who = c, !.ticket = t])
    BY <2>6 DEF RequestCode
  <2>7. ASSUME NEW c \in Customer, NEW code \in Code, Scan(s, c, code)
        PROVE  Started([Idle EXCEPT !.pc = "scan.read", !.who = c,
                          !.ticket = code.ticket, !.holder = code.customer])
    BY <2>7 DEF Scan
  <2> HIDE DEF Started
  <2> QED
    BY <2>1, <2>2, <2>3, <2>4, <2>5, <2>6, <2>7, Zenon DEF Arrive
<1>3. calls \in [Slot -> CallRecord]
  BY Lone
<1> QED
  BY <1>1, <1>2, <1>3, LoneCall

\* Segments that read, sign or hand out a code.
Quiet(s) ==
    \/ CheckoutRead(s) \/ CheckoutSign(s) \/ PayRead(s) \/ PaySign(s)
    \/ ResaleRead(s) \/ UnlistRead(s) \/ SettleRead(s) \/ SettleLook(s)
    \/ IssueCode(s) \/ ScanRead(s) \/ ScanStaff(s) \/ ScanHolder(s) \/ Abort(s)

LEMMA QuietFresh ==
    ASSUME SInv, Serial, NEW s \in Slot, Quiet(s)
    PROVE  CallsFresh' /\ UNCHANGED <<tickets, admissions>>
<1>1. /\ calls \in [Slot -> CallRecord] /\ calls[s] \in CallRecord
      /\ Fresh(calls[s], tickets)
  BY Lone
<1>2. UNCHANGED <<tickets, admissions>>
  BY DEF Quiet, CheckoutRead, CheckoutSign, PayRead, PaySign, ResaleRead, UnlistRead,
     SettleRead, SettleLook, IssueCode, ScanRead, ScanStaff, ScanHolder, Abort, database
<1> SUFFICES CallsFresh'
  BY <1>2
<1>3. ASSUME NEW k, Continue(s, k) \/ Return(s), Fresh(k, tickets)
      PROVE  CallsFresh'
  BY <1>1, <1>2, <1>3, LoneCall, LoneReturn
<1> DEFINE k == calls[s]
<1> USE DEF Fresh, CallRecord
<1>4. CASE PaySign(s) \/ IssueCode(s) \/ Abort(s)
  BY <1>1, <1>4, LoneReturn DEF PaySign, IssueCode, Abort
<1>5. CASE CheckoutRead(s)
  <2>1. Fresh([k EXCEPT !.pc = "checkout.sign", !.holder = tickets[k.ticket].owner,
                        !.price = tickets[k.ticket].price], tickets)
    BY <1>1
  <2> QED
    BY <1>3, <1>5, <2>1, Zenon DEF CheckoutRead
<1>6. CASE CheckoutSign(s)
  <2>1. Fresh([k EXCEPT !.pc = "checkout.create", !.quote = tickets[k.ticket].price],
              tickets)
    BY <1>1, <1>6 DEF CheckoutSign
  <2> QED
    BY <1>3, <1>6, <2>1, Zenon DEF CheckoutSign
<1>7. CASE PayRead(s)
  <2>1. Fresh([k EXCEPT !.pc = "pay.sign", !.ticket = orders[k.order].ticket], tickets)
    BY <1>1
  <2> QED
    BY <1>3, <1>7, <2>1, Zenon DEF PayRead
<1>8. CASE ResaleRead(s)
  <2>1. Resellable(tickets[k.ticket], k.who) =>
          Fresh([k EXCEPT !.pc = "resale.write"], tickets)
    BY <1>1 DEF Resellable, Unspent
  <2> QED
    BY <1>1, <1>3, <1>8, <2>1, LoneReturn, Zenon DEF ResaleRead
<1>9. CASE UnlistRead(s)
  <2>1. Listed(tickets[k.ticket], k.who) =>
          Fresh([k EXCEPT !.pc = "unlist.write"], tickets)
    BY <1>1 DEF Listed
  <2> QED
    BY <1>1, <1>3, <1>9, <2>1, LoneReturn, Zenon DEF UnlistRead
<1>10. CASE SettleRead(s)
  <2> DEFINE t == orders[k.order].ticket
  <2>1. Fresh([k EXCEPT !.pc = "settle.paid", !.ticket = t, !.times = tickets[t].times],
              tickets)
    BY <1>1
  <2> QED
    BY <1>3, <1>10, <2>1, Zenon DEF SettleRead
<1>11. CASE SettleLook(s)
  <2> DEFINE nft == tickets[k.ticket].nft
  <2>1. Fresh([k EXCEPT !.pc = "settle.write",
                        !.token = IF nft # None THEN nft ELSE k.token], tickets)
    BY <1>1, <1>11 DEF SettleLook
  <2> QED
    BY <1>3, <1>11, <2>1, Zenon DEF SettleLook
<1>12. CASE ScanRead(s)
  <2>1. Admissible(tickets[k.ticket], k.holder) =>
          Fresh([k EXCEPT !.pc = "scan.staff"], tickets)
    BY <1>1 DEF Admissible
  <2> QED
    BY <1>1, <1>3, <1>12, <2>1, LoneReturn, Zenon DEF ScanRead
<1>13. CASE ScanStaff(s)
  <2>1. Fresh([k EXCEPT !.pc = "scan.holder"], tickets)
    BY <1>1, <1>13 DEF ScanStaff
  <2> QED
    BY <1>3, <1>13, <2>1, Zenon DEF ScanStaff
<1>14. CASE ScanHolder(s)
  <2>1. Fresh([k EXCEPT !.pc = "scan.write"], tickets)
    BY <1>1, <1>14 DEF ScanHolder
  <2> QED
    BY <1>3, <1>14, <2>1, Zenon DEF ScanHolder
<1> QED
  BY <1>4, <1>5, <1>6, <1>7, <1>8, <1>9, <1>10, <1>11, <1>12, <1>13, <1>14, Zenon
     DEF Quiet

-----------------------------------------------------------------------------
(* Segments that write orders or tickets *)

LEMMA CheckoutCreateFresh ==
    ASSUME SInv, Serial, NEW s \in Slot, CheckoutCreate(s), IInv'
    PROVE  SInv'
<1>1. UNCHANGED <<tickets, admissions>> /\ Return(s)
  BY DEF CheckoutCreate
<1> QED
  BY <1>1, Lone, LoneReturn, AdmissionsKept DEF SInv

LEMMA ReportFresh ==
    ASSUME SInv, Serial, NEW s \in Slot, SettlePaid(s) \/ SettleDone(s), IInv'
    PROVE  SInv'
<1>1. UNCHANGED <<tickets, admissions>>
  BY DEF SettlePaid, SettleDone
<1>2. /\ calls \in [Slot -> CallRecord] /\ calls[s] \in CallRecord
      /\ Fresh(calls[s], tickets) /\ orders \in [Order -> OrderRow]
      /\ calls[s].order \in Order /\ orders[calls[s].order].status # "FREE"
  BY Lone DEF Backed, SettlePc, SettlePaid, SettleDone
<1>4. CallsFresh'
  <2>1. CASE SettlePaid(s)
    <3> DEFINE k == [calls[s] EXCEPT !.pc = "settle.look"]
    <3>1. Continue(s, k) /\ Fresh(k, tickets')
      BY <1>1, <1>2, <2>1 DEF SettlePaid, Fresh, CallRecord
    <3> HIDE DEF k
    <3> QED
      BY <1>2, <3>1, LoneCall
  <2>2. CASE SettleDone(s)
    BY <1>2, <2>2, LoneReturn DEF SettleDone
  <2> QED
    BY <2>1, <2>2
<1> QED
  BY <1>1, <1>4, AdmissionsKept DEF SInv

\* Listing and unlisting: the ticket stays one its owner can still use.
LEMMA ListingFresh ==
    ASSUME SInv, Serial, NEW s \in Slot, ResaleWrite(s) \/ UnlistWrite(s), IInv'
    PROVE  SInv'
<1> DEFINE t == calls[s].ticket
<1>1. UNCHANGED admissions /\ Return(s)
  BY DEF ResaleWrite, UnlistWrite
<1>2. /\ calls \in [Slot -> CallRecord] /\ tickets \in [Ticket -> TicketRow]
      /\ t \in Ticket /\ tickets[t].status \in Unspent
  BY Lone
     DEF Fresh, Backed, ResaleWrite, UnlistWrite, Unspent, CirculationBacked, SInv, IInv,
         CallsBacked, CallBacked, HoldsCirculating
<1>3. \A u \in Ticket : /\ tickets'[u].times = tickets[u].times
                        /\ u # t => tickets'[u] = tickets[u]
  BY <1>2 DEF ResaleWrite, UnlistWrite, TicketRow
<1>4. AdmissionsBacked' /\ AdmissionsLeft'
  BY <1>1, <1>2, <1>3 DEF SInv, AdmissionsBacked, AdmissionsLeft
<1> QED
  BY <1>1, <1>2, <1>4, LoneReturn DEF SInv

\* The gate uses up the admission ScanRead found left.
LEMMA ScanWriteFresh ==
    ASSUME SInv, Serial, NEW s \in Slot, ScanWrite(s), IInv'
    PROVE  SInv'
<1> DEFINE t == calls[s].ticket
<1>1. /\ Return(s)
      /\ tickets' = [tickets EXCEPT ![t].status = "USED"]
      /\ admissions' = [admissions EXCEPT ![t] = @ + 1]
  BY DEF ScanWrite
<1>2. /\ calls \in [Slot -> CallRecord] /\ tickets \in [Ticket -> TicketRow]
      /\ admissions \in [Ticket -> Nat] /\ t \in Ticket /\ tickets[t].status = "SOLD"
  BY Lone DEF Fresh, Backed, ScanWrite, ScanPc
<1>3. \A u \in Ticket : /\ tickets'[u].times = tickets[u].times
                        /\ tickets[u].times \in Nat
                        /\ u # t => tickets'[u] = tickets[u]
      /\ tickets'[t].status = "USED"
  BY <1>1, <1>2 DEF TicketRow
<1>4. admissions[t] < tickets[t].times
  BY <1>2 DEF SInv, AdmissionsLeft, Unspent
<1>5. AdmissionsBacked' /\ AdmissionsLeft'
  BY <1>1, <1>2, <1>3, <1>4 DEF SInv, AdmissionsBacked, AdmissionsLeft, Unspent
<1> QED
  BY <1>1, <1>2, <1>5, LoneReturn DEF SInv

\* A payment report adds one sale to the count it read, which is the row's.
LEMMA SettleWriteFresh ==
    ASSUME SInv, Serial, NEW s \in Slot, SettleWrite(s), IInv'
    PROVE  SInv'
<1> DEFINE t == calls[s].ticket
           k == [calls[s] EXCEPT !.pc = "settle.done"]
<1>1. /\ UNCHANGED admissions /\ Continue(s, k)
      /\ tickets' = [tickets EXCEPT ![t] = HandedOver(@, calls[s])]
  BY DEF SettleWrite
<1>2. /\ calls \in [Slot -> CallRecord] /\ calls[s] \in CallRecord
      /\ tickets \in [Ticket -> TicketRow] /\ admissions \in [Ticket -> Nat]
      /\ calls[s].times = tickets[t].times
  BY Lone DEF Fresh, SettleWrite
<1>3. Fresh(k, tickets')
  BY <1>2 DEF Fresh, CallRecord
<1>4. /\ \A u \in Ticket : tickets[u].times \in Nat
                           /\ (u # t => tickets'[u] = tickets[u])
      /\ t \in Ticket => tickets'[t].times = tickets[t].times + 1
  BY <1>1, <1>2 DEF HandedOver, TicketRow
<1>5. AdmissionsBacked' /\ AdmissionsLeft'
  BY <1>1, <1>2, <1>4 DEF SInv, AdmissionsBacked, AdmissionsLeft
<1> HIDE DEF k
<1> QED
  BY <1>1, <1>2, <1>3, <1>5, LoneCall DEF SInv

-----------------------------------------------------------------------------
(* The theorems *)

LEMMA InitSInv == Init => SInv
<1> SUFFICES ASSUME Init PROVE SInv
  OBVIOUS
<1>1. AdmissionsBacked /\ AdmissionsLeft
  BY DEF Init, AdmissionsBacked, AdmissionsLeft, Unspent
<1>3. CallsFresh
  BY DEF Init, CallsFresh, Fresh, Idle
<1> QED
  BY <1>1, <1>3, InitIInv DEF SInv

LEMMA NextSInv == ASSUME Serial, SInv, [Next]_vars PROVE SInv'
<1>1. IInv'
  BY NextIInv DEF SInv
<1>2. ASSUME UNCHANGED <<tickets, admissions>>, CallsFresh'
      PROVE  SInv'
  BY <1>1, <1>2, AdmissionsKept DEF SInv
<1>3. ASSUME Outside \/ UNCHANGED vars PROVE SInv'
  <2>1. UNCHANGED <<tickets, admissions, calls>>
    BY <1>3 DEF Outside, UpdateCustomer, EventEnds, ExpireCode, vars, database
  <2> QED
    BY <1>2, <2>1 DEF SInv, CallsFresh
<1>4. ASSUME NEW s \in Slot, Arrive(s) PROVE SInv'
  BY <1>2, <1>4, ArriveFresh
<1>5. ASSUME NEW s \in Slot, Quiet(s) PROVE SInv'
  BY <1>2, <1>5, QuietFresh
<1>6. ASSUME NEW s \in Slot, Proceed(s) \/ Abort(s) PROVE SInv'
  BY <1>1, <1>5, <1>6, CheckoutCreateFresh, ReportFresh, ListingFresh, ScanWriteFresh,
     SettleWriteFresh, Zenon DEF Proceed, Quiet
<1> QED
  BY <1>3, <1>4, <1>6, Zenon DEF Next

THEOREM SerialInvariant == ASSUME Serial PROVE Spec => []SInv
BY InitSInv, NextSInv, PTL DEF Spec

\* While requests do not overlap, no ticket is admitted more often than its sale
\* was reported: every admission needed a report that had not been admitted on.
THEOREM OneAdmissionPerSale == ASSUME Serial PROVE Spec => []AdmissionsBacked
<1>1. SInv => AdmissionsBacked
  BY DEF SInv
<1> QED
  BY <1>1, SerialInvariant, PTL

=============================================================================
