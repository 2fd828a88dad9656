------------------------ MODULE TicketTradingProofs ------------------------
(***************************************************************************)
(* Proofs about TicketTrading for every set of customers, tickets, orders  *)
(* and slots: type correctness, the safety invariants of the overlapping   *)
(* run, and the inductive invariant they rest on.                          *)
(***************************************************************************)
EXTENDS TicketTrading, TLAPS

-----------------------------------------------------------------------------
(* The inductive invariant *)

\* An order in use names a ticket and a buyer.
OrdersBacked ==
    \A o \in Order :
        orders[o].status # "FREE" =>
            orders[o].ticket \in Ticket /\ orders[o].buyer \in Customer

IInv ==
    /\ TypeOK
    /\ CirculationBacked
    /\ TransferedMeansHeld
    /\ OrdersBacked
    /\ CallsBacked

\* CallBacked with the tables as parameters, so that it can be asked of a
\* record of this state and the tables of the next.
Backed(k, tk, od) ==
    /\ k.pc # "idle" => k.who \in Customer
    /\ k.pc \in CheckoutPc \cup ScanPc \cup {"resale.read", "resale.write",
         "unlist.read", "unlist.write", "code.read"} => k.ticket \in Ticket
    /\ k.pc \in {"resale.read", "resale.write"} => k.price \in Price
    /\ k.pc \in HoldsCirculating => tk[k.ticket].status \in Circulating
    /\ k.pc \in SettlePc \cup {"pay.read", "pay.sign"} =>
         k.order \in Order /\ od[k.order].status # "FREE"
    /\ k.pc \in (SettlePc \ {"settle.read"}) \cup {"pay.sign"} =>
         k.ticket = od[k.order].ticket
    /\ k.pc \in {"settle.look", "settle.write", "settle.done"} =>
         od[k.order].status \in Reported

LEMMA BackedIsCallsBacked ==
    /\ CallsBacked <=> \A s \in Slot : Backed(calls[s], tickets, orders)
    /\ CallsBacked' <=> \A s \in Slot : Backed(calls'[s], tickets', orders')
BY Zenon DEF CallsBacked, CallBacked, Backed, Free

\* What every step preserves: circulating tickets circulate, orders keep their
\* ticket, reported orders stay reported.
Grows ==
    /\ \A t \in Ticket :
         tickets[t].status \in Circulating => tickets'[t].status \in Circulating
    /\ \A o \in Order :
         orders[o].status # "FREE" =>
            /\ orders'[o].status # "FREE"
            /\ orders'[o].ticket = orders[o].ticket
            /\ orders[o].status \in Reported => orders'[o].status \in Reported

\* A record that was backed stays backed when the tables grow.
LEMMA BackedStable ==
    ASSUME TypeOK, OrdersBacked, Grows,
           NEW k \in CallRecord, Backed(k, tickets, orders)
    PROVE  Backed(k, tickets', orders')
<1>1. k.pc \in HoldsCirculating => k.ticket \in Ticket
  BY SMT DEF Backed, OrdersBacked, HoldsCirculating, SettlePc, ScanPc, CheckoutPc
<1> QED
  BY <1>1 DEF Backed, Grows, SettlePc

\* One slot gets a backed record and the tables grow: all records are backed.
LEMMA CallStep ==
    ASSUME IInv, Grows,
           NEW s \in Slot, NEW k \in CallRecord,
           calls' = [calls EXCEPT ![s] = k],
           Backed(k, tickets', orders')
    PROVE  calls' \in [Slot -> CallRecord] /\ CallsBacked'
<1> USE DEF IInv
<1>1. calls \in [Slot -> CallRecord]
  BY DEF TypeOK
<1>2. ASSUME NEW r \in Slot
      PROVE  Backed(calls'[r], tickets', orders')
  <2>1. Backed(calls[r], tickets, orders)
    BY BackedIsCallsBacked
  <2>2. calls[r] \in CallRecord
    BY <1>1
  <2>3. Backed(calls[r], tickets', orders')
    BY <2>1, <2>2, BackedStable
  <2> QED
    BY <1>1, <2>3
<1> QED
  BY <1>1, <1>2, BackedIsCallsBacked

\* Steps that leave tickets and orders alone need only back their new record.
LEMMA QuietStep ==
    ASSUME IInv, UNCHANGED <<tickets, orders>>,
           NEW s \in Slot, NEW k \in CallRecord,
           Continue(s, k), Backed(k, tickets, orders),
           active' \subseteq Customer, ended' \in BOOLEAN, codes' \subseteq Code,
           offers' \subseteq Offer, admissions' \in [Ticket -> Nat]
    PROVE  IInv'
<1>1. Grows
  BY DEF Grows
<1>2. calls' \in [Slot -> CallRecord] /\ CallsBacked'
  BY <1>1, CallStep DEF Continue
<1>3. TypeOK'
  BY <1>2 DEF IInv, TypeOK
<1>4. CirculationBacked' /\ TransferedMeansHeld' /\ OrdersBacked'
  BY DEF IInv, CirculationBacked, TransferedMeansHeld, OrdersBacked
<1> QED
  BY <1>2, <1>3, <1>4 DEF IInv

\* A handler that ends leaves nothing behind.
LEMMA IdleIsBacked ==
    ASSUME NEW tk, NEW od
    PROVE  Idle \in CallRecord /\ Backed(Idle, tk, od)
BY DEF Idle, CallRecord, Backed, Pc, CheckoutPc, ScanPc, SettlePc, HoldsCirculating

LEMMA ReturnStep ==
    ASSUME IInv, UNCHANGED <<tickets, orders>>, NEW s \in Slot, Return(s),
           active' \subseteq Customer, ended' \in BOOLEAN, codes' \subseteq Code,
           offers' \subseteq Offer, admissions' \in [Ticket -> Nat]
    PROVE  IInv'
BY IdleIsBacked, QuietStep DEF Return

-----------------------------------------------------------------------------
(* Requests arrive *)

LEMMA ArriveStep ==
    ASSUME IInv, NEW s \in Slot, Arrive(s)
    PROVE  IInv'
<1> USE DEF IInv, TypeOK, database
<1> DEFINE Started(k) ==
        /\ k \in CallRecord /\ Backed(k, tickets, orders) /\ Continue(s, k)
        /\ UNCHANGED <<database, ended, codes, offers, admissions>>
<1>1. ASSUME NEW c \in Customer, NEW t \in Ticket,
             Checkout(s, c, t) \/ Unlist(s, c, t) \/ RequestCode(s, c, t)
      PROVE  \E k : Started(k)
  <2>1. CASE Checkout(s, c, t)
    <3> DEFINE k == [Idle EXCEPT !.pc = "checkout.read", !.who = c, !.ticket = t]
    <3> k \in CallRecord /\ Backed(k, tickets, orders)
      BY DEF Idle, CallRecord, Backed, Pc, CheckoutPc, ScanPc, SettlePc, HoldsCirculating
    <3> QED
      BY <2>1 DEF Checkout, Begin, Continue
  <2>2. CASE Unlist(s, c, t)
    <3> DEFINE k == [Idle EXCEPT !.pc = "unlist.read", !.who = c, !.ticket = t]
    <3> k \in CallRecord /\ Backed(k, tickets, orders)
      BY DEF Idle, CallRecord, Backed, Pc, CheckoutPc, ScanPc, SettlePc, HoldsCirculating
    <3> QED
      BY <2>2 DEF Unlist, Begin, Continue
  <2>3. CASE RequestCode(s, c, t)
    <3> DEFINE k == [Idle EXCEPT !.pc = "code.read", !.who = c, !.ticket = t]
    <3> k \in CallRecord /\ Backed(k, tickets, orders)
      BY DEF Idle, CallRecord, Backed, Pc, CheckoutPc, ScanPc, SettlePc, HoldsCirculating
    <3> QED
      BY <2>3 DEF RequestCode, Begin, Continue
  <2> QED
    BY <1>1, <2>1, <2>2, <2>3
<1>2. ASSUME NEW c \in Customer, NEW t \in Ticket, NEW p \in Price,
             Resale(s, c, t, p)
      PROVE  \E k : Started(k)
  <2> DEFINE k == [Idle EXCEPT !.pc = "resale.read", !.who = c, !.ticket = t,
                               !.price = p]
  <2> k \in CallRecord /\ Backed(k, tickets, orders)
    BY DEF Idle, CallRecord, Backed, Pc, CheckoutPc, ScanPc, SettlePc, HoldsCirculating
  <2> QED
    BY <1>2 DEF Resale, Begin, Continue
<1>3. ASSUME NEW c \in Customer, NEW o \in Order, Pay(s, c, o)
      PROVE  \E k : Started(k)
  <2> DEFINE k == [Idle EXCEPT !.pc = "pay.read", !.who = c, !.order = o]
  <2> k \in CallRecord /\ Backed(k, tickets, orders)
    BY <1>3 DEF Pay, Idle, CallRecord, Backed, Pc, CheckoutPc, ScanPc, SettlePc,
         HoldsCirculating
  <2> QED
    BY <1>3 DEF Pay, Begin, Continue
<1>4. ASSUME NEW c \in Customer, NEW o \in Order, NEW n \in Token \cup {None, Null},
             UpdateOrder(s, c, o, n)
      PROVE  \E k : Started(k)
  <2> DEFINE k == [Idle EXCEPT !.pc = "settle.read", !.who = c, !.order = o,
                               !.token = n]
  <2> k \in CallRecord /\ Backed(k, tickets, orders)
    BY <1>4 DEF UpdateOrder, Idle, CallRecord, Backed, Pc, CheckoutPc, ScanPc,
         SettlePc, HoldsCirculating
  <2> QED
    BY <1>4 DEF UpdateOrder, Begin, Continue
<1>5. ASSUME NEW c \in Customer, NEW code \in Code, Scan(s, c, code)
      PROVE  \E k : Started(k)
  <2> DEFINE k == [Idle EXCEPT !.pc = "scan.read", !.who = c,
                     !.ticket = code.ticket, !.holder = code.customer]
  <2> k \in CallRecord /\ Backed(k, tickets, orders)
    BY DEF Code, Idle, CallRecord, Backed, Pc, CheckoutPc, ScanPc, SettlePc,
         HoldsCirculating
  <2> QED
    BY <1>5 DEF Scan, Begin, Continue
<1>6. PICK k : Started(k)
  BY <1>1, <1>2, <1>3, <1>4, <1>5, Zenon DEF Arrive
<1> QED
  BY <1>6, QuietStep

-----------------------------------------------------------------------------
(* Segments that only read *)

LEMMA CurrentCall ==
    ASSUME IInv, NEW s \in Slot
    PROVE  calls[s] \in CallRecord /\ Backed(calls[s], tickets, orders)
BY BackedIsCallsBacked DEF IInv, TypeOK

LEMMA CheckoutReadKeeps == ASSUME IInv, NEW s \in Slot, CheckoutRead(s) PROVE IInv'
<1> DEFINE call == calls[s]
           k == [call EXCEPT !.pc = "checkout.sign", !.holder = tickets[call.ticket].owner,
                             !.price = tickets[call.ticket].price]
<1>1. call \in CallRecord /\ Backed(call, tickets, orders)
  BY CurrentCall
<1>2. ASSUME Continue(s, k), ~Return(s)
      PROVE  k \in CallRecord /\ Backed(k, tickets, orders)
  BY <1>1, <1>2 DEF CheckoutRead, Continue, Return, TicketRow, IInv, TypeOK, CallRecord,
       Backed, Pc, CheckoutPc, ScanPc, SettlePc, HoldsCirculating
<1>3. Continue(s, k) \/ Return(s)
  BY DEF CheckoutRead
<1>4. /\ UNCHANGED <<tickets, orders, active, ended, admissions>>
      /\ codes' \subseteq Code /\ offers' \subseteq Offer
  BY DEF CheckoutRead, database, IInv, TypeOK
<1> HIDE DEF k
<1> QED
  BY <1>2, <1>3, <1>4, QuietStep, ReturnStep DEF IInv, TypeOK

LEMMA CheckoutSignKeeps == ASSUME IInv, NEW s \in Slot, CheckoutSign(s) PROVE IInv'
<1> DEFINE call == calls[s]
           k == [call EXCEPT !.pc = "checkout.create",
                             !.quote = tickets[call.ticket].price]
<1>1. call \in CallRecord /\ Backed(call, tickets, orders)
  BY CurrentCall
<1>2. ASSUME Continue(s, k), ~Return(s)
      PROVE  k \in CallRecord /\ Backed(k, tickets, orders)
  <2>1. call.pc = "checkout.sign"
    BY DEF CheckoutSign
  <2>2. call.ticket \in Ticket /\ tickets[call.ticket].price \in Price
    BY <1>1, <2>1, <1>2 DEF CheckoutSign, Continue, Return, Backed, SettlePc, CheckoutPc,
       TicketRow, IInv, TypeOK
  <2>3. k \in CallRecord
    BY <1>1, <2>2 DEF CallRecord, Pc, CheckoutPc, SettlePc
  <2>4. Backed(k, tickets, orders)
    BY <1>1, <2>1, <2>2 DEF CallRecord, Backed, CheckoutPc, ScanPc, SettlePc,
       HoldsCirculating
  <2> QED
    BY <2>3, <2>4
<1>3. Continue(s, k) \/ Return(s)
  BY DEF CheckoutSign
<1>4. /\ UNCHANGED <<tickets, orders, active, ended, admissions>>
      /\ codes' \subseteq Code /\ offers' \subseteq Offer
  BY DEF CheckoutSign, database, IInv, TypeOK
<1> HIDE DEF k
<1> QED
  BY <1>2, <1>3, <1>4, QuietStep, ReturnStep DEF IInv, TypeOK

LEMMA PayReadKeeps == ASSUME IInv, NEW s \in Slot, PayRead(s) PROVE IInv'
<1> DEFINE call == calls[s]
           k == [call EXCEPT !.pc = "pay.sign",
                             !.ticket = orders[call.order].ticket]
<1>1. call \in CallRecord /\ Backed(call, tickets, orders)
  BY CurrentCall
<1>2. ASSUME Continue(s, k), ~Return(s)
      PROVE  k \in CallRecord /\ Backed(k, tickets, orders)
  <2>1. call.pc = "pay.read"
    BY DEF PayRead
  <2>2. /\ call.order \in Order /\ orders[call.order].status # "FREE"
        /\ orders[call.order].ticket \in Ticket \cup {None}
    BY <1>1, <2>1, <1>2 DEF PayRead, Continue, Return, Backed, SettlePc, CheckoutPc,
       OrderRow, IInv, TypeOK
  <2>3. k \in CallRecord
    BY <1>1, <2>2 DEF CallRecord, Pc, CheckoutPc, SettlePc
  <2>4. Backed(k, tickets, orders)
    BY <1>1, <2>1, <2>2 DEF CallRecord, Backed, CheckoutPc, ScanPc, SettlePc,
       HoldsCirculating
  <2> QED
    BY <2>3, <2>4
<1>3. Continue(s, k) \/ Return(s)
  BY DEF PayRead
<1>4. /\ UNCHANGED <<tickets, orders, active, ended, admissions>>
      /\ codes' \subseteq Code /\ offers' \subseteq Offer
  BY DEF PayRead, database, IInv, TypeOK
<1> HIDE DEF k
<1> QED
  BY <1>2, <1>3, <1>4, QuietStep, ReturnStep DEF IInv, TypeOK

LEMMA ResaleReadKeeps == ASSUME IInv, NEW s \in Slot, ResaleRead(s) PROVE IInv'
<1> DEFINE call == calls[s]
           k == [call EXCEPT !.pc = "resale.write"]
<1>1. call \in CallRecord /\ Backed(call, tickets, orders)
  BY CurrentCall
<1>2. ASSUME Continue(s, k), ~Return(s)
      PROVE  k \in CallRecord /\ Backed(k, tickets, orders)
  BY <1>1, <1>2 DEF ResaleRead, Continue, Return, Resellable, Circulating, IInv, TypeOK, CallRecord,
       Backed, Pc, CheckoutPc, ScanPc, SettlePc, HoldsCirculating
<1>3. Continue(s, k) \/ Return(s)
  BY DEF ResaleRead
<1>4. /\ UNCHANGED <<tickets, orders, active, ended, admissions>>
      /\ codes' \subseteq Code /\ offers' \subseteq Offer
  BY DEF ResaleRead, database, IInv, TypeOK
<1> HIDE DEF k
<1> QED
  BY <1>2, <1>3, <1>4, QuietStep, ReturnStep DEF IInv, TypeOK

LEMMA UnlistReadKeeps == ASSUME IInv, NEW s \in Slot, UnlistRead(s) PROVE IInv'
<1> DEFINE call == calls[s]
           k == [call EXCEPT !.pc = "unlist.write"]
<1>1. call \in CallRecord /\ Backed(call, tickets, orders)
  BY CurrentCall
<1>2. ASSUME Continue(s, k), ~Return(s)
      PROVE  k \in CallRecord /\ Backed(k, tickets, orders)
  BY <1>1, <1>2 DEF UnlistRead, Continue, Return, Listed, Circulating, IInv, TypeOK, CallRecord,
       Backed, Pc, CheckoutPc, ScanPc, SettlePc, HoldsCirculating
<1>3. Continue(s, k) \/ Return(s)
  BY DEF UnlistRead
<1>4. /\ UNCHANGED <<tickets, orders, active, ended, admissions>>
      /\ codes' \subseteq Code /\ offers' \subseteq Offer
  BY DEF UnlistRead, database, IInv, TypeOK
<1> HIDE DEF k
<1> QED
  BY <1>2, <1>3, <1>4, QuietStep, ReturnStep DEF IInv, TypeOK

LEMMA SettleReadKeeps == ASSUME IInv, NEW s \in Slot, SettleRead(s) PROVE IInv'
<1> DEFINE call == calls[s]
           k == [call EXCEPT !.pc = "settle.paid",
                             !.ticket = orders[call.order].ticket,
                             !.times = tickets[orders[call.order].ticket].times]
<1>1. call \in CallRecord /\ Backed(call, tickets, orders)
  BY CurrentCall
<1>2. ASSUME Continue(s, k), ~Return(s)
      PROVE  k \in CallRecord /\ Backed(k, tickets, orders)
  <2>1. call.pc = "settle.read"
    BY DEF SettleRead
  <2>2. /\ call.order \in Order /\ orders[call.order].status # "FREE"
        /\ orders[call.order].ticket \in Ticket
        /\ tickets[orders[call.order].ticket].times \in Nat
    BY <1>1, <2>1, <1>2 DEF SettleRead, Continue, Return, Backed, SettlePc, CheckoutPc,
       TicketRow, OrdersBacked, IInv, TypeOK
  <2>3. k \in CallRecord
    BY <1>1, <2>2 DEF CallRecord, Pc, CheckoutPc, SettlePc
  <2>4. Backed(k, tickets, orders)
    BY <1>1, <2>1, <2>2 DEF CallRecord, Backed, CheckoutPc, ScanPc, SettlePc,
       HoldsCirculating
  <2> QED
    BY <2>3, <2>4
<1>3. Continue(s, k) \/ Return(s)
  BY DEF SettleRead
<1>4. /\ UNCHANGED <<tickets, orders, active, ended, admissions>>
      /\ codes' \subseteq Code /\ offers' \subseteq Offer
  BY DEF SettleRead, database, IInv, TypeOK
<1> HIDE DEF k
<1> QED
  BY <1>2, <1>3, <1>4, QuietStep, ReturnStep DEF IInv, TypeOK

LEMMA SettleLookKeeps == ASSUME IInv, NEW s \in Slot, SettleLook(s) PROVE IInv'
<1> DEFINE call == calls[s]
           n == IF tickets[call.ticket].nft # None THEN tickets[call.ticket].nft
                ELSE call.token
           k == [call EXCEPT !.pc = "settle.write", !.token = n]
<1>1. call \in CallRecord /\ Backed(call, tickets, orders)
  BY CurrentCall
<1>2. ASSUME Continue(s, k), ~Return(s)
      PROVE  k \in CallRecord /\ Backed(k, tickets, orders)
  <2>1. call.pc = "settle.look"
    BY DEF SettleLook
  <2>2. /\ call.order \in Order /\ orders[call.order].status # "FREE"
        /\ call.ticket = orders[call.order].ticket /\ call.ticket \in Ticket
        /\ tickets[call.ticket].nft \in Token \cup {None}
    <3>1. /\ call.order \in Order /\ orders[call.order].status # "FREE"
          /\ call.ticket = orders[call.order].ticket
      BY <1>1, <2>1 DEF Backed, SettlePc
    <3>2. call.ticket \in Ticket
      BY <3>1 DEF OrdersBacked, IInv
    <3> QED
      BY <3>1, <3>2 DEF TicketRow, IInv, TypeOK
  <2>3. k \in CallRecord
    <3>1. n \in Token \cup {None, Null}
      BY <1>1, <2>2 DEF CallRecord
    <3>2. "settle.write" \in Pc
      BY DEF Pc, SettlePc
    <3> HIDE DEF n, call
    <3> QED
      BY <1>1, <3>1, <3>2 DEF CallRecord
  <2>4. /\ k.pc = "settle.write" /\ k.who = call.who
        /\ k.ticket = call.ticket /\ k.order = call.order
    BY <1>1 DEF CallRecord
  <2>5. call.who \in Customer /\ orders[call.order].status \in Reported
    BY <1>1, <2>1 DEF Backed
  <2>6. Backed(k, tickets, orders)
    <3> HIDE DEF k, call
    <3> QED
      BY <2>2, <2>4, <2>5 DEF Backed, CheckoutPc, ScanPc, SettlePc, HoldsCirculating
  <2> QED
    BY <2>3, <2>6
<1>3. Continue(s, k) \/ Return(s)
  BY DEF SettleLook
<1>4. /\ UNCHANGED <<tickets, orders, active, ended, admissions>>
      /\ codes' \subseteq Code /\ offers' \subseteq Offer
  BY DEF SettleLook, database, IInv, TypeOK
<1> HIDE DEF k
<1> QED
  BY <1>2, <1>3, <1>4, QuietStep, ReturnStep DEF IInv, TypeOK

LEMMA ScanReadKeeps == ASSUME IInv, NEW s \in Slot, ScanRead(s) PROVE IInv'
<1> DEFINE call == calls[s]
           k == [call EXCEPT !.pc = "scan.staff"]
<1>1. call \in CallRecord /\ Backed(call, tickets, orders)
  BY CurrentCall
<1>2. ASSUME Continue(s, k), ~Return(s)
      PROVE  k \in CallRecord /\ Backed(k, tickets, orders)
  BY <1>1, <1>2 DEF ScanRead, Continue, Return, Admissible, Circulating, IInv, TypeOK, CallRecord,
       Backed, Pc, CheckoutPc, ScanPc, SettlePc, HoldsCirculating
<1>3. Continue(s, k) \/ Return(s)
  BY DEF ScanRead
<1>4. /\ UNCHANGED <<tickets, orders, active, ended, admissions>>
      /\ codes' \subseteq Code /\ offers' \subseteq Offer
  BY DEF ScanRead, database, IInv, TypeOK
<1> HIDE DEF k
<1> QED
  BY <1>2, <1>3, <1>4, QuietStep, ReturnStep DEF IInv, TypeOK

LEMMA ScanStaffKeeps == ASSUME IInv, NEW s \in Slot, ScanStaff(s) PROVE IInv'
<1> DEFINE call == calls[s]
           k == [call EXCEPT !.pc = "scan.holder"]
<1>1. call \in CallRecord /\ Backed(call, tickets, orders)
  BY CurrentCall
<1>2. ASSUME Continue(s, k), ~Return(s)
      PROVE  k \in CallRecord /\ Backed(k, tickets, orders)
  BY <1>1, <1>2 DEF ScanStaff, Continue, Return, OrdersBacked, IInv, TypeOK, CallRecord,
       Backed, Pc, CheckoutPc, ScanPc, SettlePc, HoldsCirculating
<1>3. Continue(s, k) \/ Return(s)
  BY DEF ScanStaff
<1>4. /\ UNCHANGED <<tickets, orders, active, ended, admissions>>
      /\ codes' \subseteq Code /\ offers' \subseteq Offer
  BY DEF ScanStaff, database, IInv, TypeOK
<1> HIDE DEF k
<1> QED
  BY <1>2, <1>3, <1>4, QuietStep, ReturnStep DEF IInv, TypeOK

LEMMA ScanHolderKeeps == ASSUME IInv, NEW s \in Slot, ScanHolder(s) PROVE IInv'
<1> DEFINE call == calls[s]
           k == [call EXCEPT !.pc = "scan.write"]
<1>1. call \in CallRecord /\ Backed(call, tickets, orders)
  BY CurrentCall
<1>2. ASSUME Continue(s, k), ~Return(s)
      PROVE  k \in CallRecord /\ Backed(k, tickets, orders)
  BY <1>1, <1>2 DEF ScanHolder, Continue, Return, OrdersBacked, IInv, TypeOK, CallRecord,
       Backed, Pc, CheckoutPc, ScanPc, SettlePc, HoldsCirculating
<1>3. Continue(s, k) \/ Return(s)
  BY DEF ScanHolder
<1>4. /\ UNCHANGED <<tickets, orders, active, ended, admissions>>
      /\ codes' \subseteq Code /\ offers' \subseteq Offer
  BY DEF ScanHolder, database, IInv, TypeOK
<1> HIDE DEF k
<1> QED
  BY <1>2, <1>3, <1>4, QuietStep, ReturnStep DEF IInv, TypeOK

LEMMA PaySignKeeps == ASSUME IInv, NEW s \in Slot, PaySign(s) PROVE IInv'
<1> DEFINE call == calls[s]
<1>1. call \in CallRecord /\ Backed(call, tickets, orders)
  BY CurrentCall
<1>2. call.pc = "pay.sign" /\ Return(s) /\ UNCHANGED <<database, ended, codes, admissions>>
  BY DEF PaySign
<1>3. call.order \in Order /\ call.ticket \in Ticket
  BY <1>1, <1>2 DEF Backed, IInv, OrdersBacked
<1>4. offers' \subseteq Offer
  BY <1>3 DEF PaySign, IInv, TypeOK, TicketRow, Offer
<1> QED
  BY <1>2, <1>4, ReturnStep DEF IInv, TypeOK, database

LEMMA IssueCodeKeeps == ASSUME IInv, NEW s \in Slot, IssueCode(s) PROVE IInv'
<1> DEFINE call == calls[s]
<1>1. call \in CallRecord /\ Backed(call, tickets, orders)
  BY CurrentCall
<1>2. /\ call.pc = "code.read" /\ Return(s)
      /\ UNCHANGED <<database, ended, offers, admissions>>
  BY DEF IssueCode
<1>3. call.who \in Customer /\ call.ticket \in Ticket
  BY <1>1, <1>2 DEF Backed
<1>4. codes' \subseteq Code
  BY <1>3 DEF IssueCode, IInv, TypeOK, Code
<1> QED
  BY <1>2, <1>4, ReturnStep DEF IInv, TypeOK, database

-----------------------------------------------------------------------------
(* Segments that write an order *)

\* The order of one id is written; ticket rows stay.
LEMMA OrderStep ==
    ASSUME IInv, NEW s \in Slot, NEW k \in CallRecord, Continue(s, k),
           NEW o \in Order, NEW row \in OrderRow,
           orders' = [orders EXCEPT ![o] = row],
           row.status # "FREE", row.ticket \in Ticket, row.buyer \in Customer,
           orders[o].status # "FREE" => row.ticket = orders[o].ticket,
           orders[o].status \in Reported => row.status \in Reported,
           row.status = "TRANSFERED" =>
               tickets[row.ticket].status \in Circulating,
           Backed(k, tickets, orders'),
           UNCHANGED <<tickets, active, ended, codes, admissions>>,
           offers' \subseteq Offer
    PROVE  IInv'
<1>1. orders' \in [Order -> OrderRow]
  BY DEF IInv, TypeOK
<1>2. \A x \in Order : orders'[x] = IF x = o THEN row ELSE orders[x]
  BY DEF IInv, TypeOK
<1>3. Grows
  BY <1>2 DEF Grows
<1>4. calls' \in [Slot -> CallRecord] /\ CallsBacked'
  BY <1>3, CallStep DEF Continue
<1>5. TypeOK'
  BY <1>1, <1>4 DEF IInv, TypeOK
<1>6. CirculationBacked'
  <2> SUFFICES ASSUME NEW t \in Ticket, tickets[t].status \in Circulating
               PROVE  /\ orders'[tickets[t].last].ticket = t
                      /\ orders'[tickets[t].last].status \in Reported
    BY DEF IInv, CirculationBacked
  <2>1. /\ tickets[t].last \in Order
        /\ orders[tickets[t].last].ticket = t
        /\ orders[tickets[t].last].status \in Reported
    BY DEF IInv, CirculationBacked
  <2> QED
    BY <1>3, <2>1 DEF Grows, Reported
<1>7. TransferedMeansHeld' /\ OrdersBacked'
  BY <1>2 DEF IInv, TransferedMeansHeld, OrdersBacked
<1> QED
  BY <1>4, <1>5, <1>6, <1>7 DEF IInv

LEMMA CheckoutCreateKeeps ==
    ASSUME IInv, NEW s \in Slot, CheckoutCreate(s) PROVE IInv'
<1> DEFINE call == calls[s]
<1>1. call \in CallRecord /\ Backed(call, tickets, orders)
  BY CurrentCall
<1>2. PICK o \in Free :
        /\ orders' = [orders EXCEPT ![o] = NewOrder(call)]
        /\ offers' = offers \cup {[order |-> o, price |-> call.quote]}
  BY DEF CheckoutCreate
<1>3. /\ call.pc = "checkout.create" /\ Continue(s, Idle)
      /\ UNCHANGED <<tickets, active, ended, codes, admissions>>
  BY DEF CheckoutCreate, Return
<1>4. call.who \in Customer /\ call.ticket \in Ticket
  BY <1>1, <1>3 DEF Backed, CheckoutPc
<1> DEFINE row == NewOrder(call)
<1>5. /\ row \in OrderRow /\ row.status = "NEW" /\ row.ticket \in Ticket
      /\ row.buyer \in Customer
  BY <1>1, <1>4 DEF NewOrder, OrderRow, OrderStatus, CallRecord
<1>6. offers' \subseteq Offer
  BY <1>1, <1>2 DEF Free, IInv, TypeOK, Offer, CallRecord
<1>7. o \in Order /\ orders[o].status = "FREE" /\ orders' = [orders EXCEPT ![o] = row]
  BY <1>2 DEF Free
<1> HIDE DEF row
<1> QED
  BY <1>3, <1>5, <1>6, <1>7, IdleIsBacked, OrderStep DEF Reported

LEMMA SettlePaidKeeps ==
    ASSUME IInv, NEW s \in Slot, SettlePaid(s) PROVE IInv'
<1> DEFINE call == calls[s]
           o == call.order
           k == [call EXCEPT !.pc = "settle.look"]
           row == [orders[o] EXCEPT !.status = "PAID", !.txHash = TRUE]
<1>1. call \in CallRecord /\ Backed(call, tickets, orders)
  BY CurrentCall
<1>2. /\ call.pc = "settle.paid" /\ Continue(s, k)
      /\ UNCHANGED <<tickets, active, ended, codes, offers, admissions>>
  BY DEF SettlePaid
<1>3. /\ call.who \in Customer /\ o \in Order /\ orders[o].status # "FREE"
      /\ call.ticket = orders[o].ticket
  BY <1>1, <1>2 DEF Backed, SettlePc
<1>4. orders[o] \in OrderRow /\ orders[o].ticket \in Ticket /\ orders[o].buyer \in Customer
  BY <1>3 DEF IInv, TypeOK, OrdersBacked
<1>5. orders' = [orders EXCEPT ![o] = row]
  BY <1>3 DEF SettlePaid, IInv, TypeOK
<1>6. /\ row \in OrderRow /\ row.status = "PAID" /\ row.ticket = orders[o].ticket
      /\ row.buyer = orders[o].buyer
  BY <1>4 DEF OrderRow, OrderStatus
<1>7. orders'[o] = row
  BY <1>3, <1>5 DEF IInv, TypeOK
<1>8. k \in CallRecord /\ Backed(k, tickets, orders')
  <2>1. k \in CallRecord /\ k.pc = "settle.look" /\ k.order = o
        /\ k.ticket = call.ticket /\ k.who = call.who
    BY <1>1 DEF CallRecord, Pc, SettlePc
  <2>2. orders'[o].status = "PAID" /\ orders'[o].ticket = orders[o].ticket
    BY <1>6, <1>7
  <2> HIDE DEF k, row, o, call
  <2> QED
    BY <1>3, <2>1, <2>2 DEF Backed, Reported, CheckoutPc, ScanPc, HoldsCirculating
<1>9. offers' \subseteq Offer
  BY <1>2 DEF IInv, TypeOK
<1> HIDE DEF k, row
<1> QED
  BY <1>2, <1>3, <1>4, <1>5, <1>6, <1>8, <1>9, OrderStep DEF Reported

LEMMA SettleDoneKeeps ==
    ASSUME IInv, NEW s \in Slot, SettleDone(s) PROVE IInv'
<1> DEFINE call == calls[s]
           o == call.order
           row == [orders[o] EXCEPT !.status = "TRANSFERED"]
<1>1. call \in CallRecord /\ Backed(call, tickets, orders)
  BY CurrentCall
<1>2. /\ call.pc = "settle.done" /\ Continue(s, Idle)
      /\ UNCHANGED <<tickets, active, ended, codes, offers, admissions>>
  BY DEF SettleDone, Return
<1>3. /\ o \in Order /\ orders[o].status # "FREE"
      /\ call.ticket = orders[o].ticket
      /\ tickets[call.ticket].status \in Circulating
  BY <1>1, <1>2 DEF Backed, SettlePc, HoldsCirculating
<1>4. orders[o] \in OrderRow /\ orders[o].ticket \in Ticket /\ orders[o].buyer \in Customer
  BY <1>3 DEF IInv, TypeOK, OrdersBacked
<1>5. orders' = [orders EXCEPT ![o] = row]
  BY <1>3 DEF SettleDone, IInv, TypeOK
<1>6. /\ row \in OrderRow /\ row.status = "TRANSFERED" /\ row.ticket = orders[o].ticket
      /\ row.buyer = orders[o].buyer
  BY <1>4 DEF OrderRow, OrderStatus
<1>7. offers' \subseteq Offer
  BY <1>2 DEF IInv, TypeOK
<1> HIDE DEF row
<1> QED
  BY <1>2, <1>3, <1>4, <1>5, <1>6, <1>7, IdleIsBacked, OrderStep DEF Reported

-----------------------------------------------------------------------------
(* Segments that write a ticket *)

\* A circulating ticket gets another circulating status, perhaps a new price.
LEMMA RelabelStep ==
    ASSUME IInv, NEW s \in Slot, Return(s),
           NEW t \in Ticket, tickets[t].status \in Circulating,
           NEW row \in TicketRow, tickets' = [tickets EXCEPT ![t] = row],
           row.status \in Circulating,
           row.owner = tickets[t].owner, row.last = tickets[t].last,
           UNCHANGED <<orders, active, ended, codes, offers>>,
           admissions' \in [Ticket -> Nat]
    PROVE  IInv'
<1>1. tickets' \in [Ticket -> TicketRow]
  BY DEF IInv, TypeOK
<1>2. \A u \in Ticket : tickets'[u] = IF u = t THEN row ELSE tickets[u]
  BY DEF IInv, TypeOK
<1>3. Grows
  BY <1>2 DEF Grows
<1>4. calls' \in [Slot -> CallRecord] /\ CallsBacked'
  BY <1>3, IdleIsBacked, CallStep DEF Return, Continue
<1>5. TypeOK'
  BY <1>1, <1>4 DEF IInv, TypeOK
<1>6. CirculationBacked'
  BY <1>2 DEF IInv, CirculationBacked
<1>7. TransferedMeansHeld' /\ OrdersBacked'
  BY <1>3 DEF IInv, TransferedMeansHeld, OrdersBacked, Grows
<1> QED
  BY <1>4, <1>5, <1>6, <1>7 DEF IInv

LEMMA ResaleWriteKeeps ==
    ASSUME IInv, NEW s \in Slot, ResaleWrite(s) PROVE IInv'
<1> DEFINE call == calls[s]
           t == call.ticket
           row == [tickets[t] EXCEPT !.status = "RESALE", !.price = call.price]
<1>1. call \in CallRecord /\ Backed(call, tickets, orders)
  BY CurrentCall
<1>2. /\ call.pc = "resale.write" /\ Return(s)
      /\ UNCHANGED <<orders, active, ended, codes, offers, admissions>>
  BY DEF ResaleWrite
<1>3. t \in Ticket /\ call.price \in Price /\ tickets[t].status \in Circulating
  BY <1>1, <1>2 DEF Backed, HoldsCirculating
<1>4. /\ row \in TicketRow /\ row.status \in Circulating
      /\ row.owner = tickets[t].owner /\ row.last = tickets[t].last
  <2>1. tickets[t] \in TicketRow
    BY <1>3 DEF IInv, TypeOK
  <2> QED
    BY <1>3, <2>1 DEF TicketRow, TicketStatus, Circulating
<1>5. tickets' = [tickets EXCEPT ![t] = row]
  BY <1>3 DEF ResaleWrite, IInv, TypeOK
<1>6. admissions' \in [Ticket -> Nat]
  BY <1>2 DEF IInv, TypeOK
<1> HIDE DEF row
<1> QED
  BY <1>2, <1>3, <1>4, <1>5, <1>6, RelabelStep

LEMMA UnlistWriteKeeps ==
    ASSUME IInv, NEW s \in Slot, UnlistWrite(s) PROVE IInv'
<1> DEFINE call == calls[s]
           t == call.ticket
           row == [tickets[t] EXCEPT !.status = "SOLD"]
<1>1. call \in CallRecord /\ Backed(call, tickets, orders)
  BY CurrentCall
<1>2. /\ call.pc = "unlist.write" /\ Return(s)
      /\ UNCHANGED <<orders, active, ended, codes, offers, admissions>>
  BY DEF UnlistWrite
<1>3. t \in Ticket /\ tickets[t].status \in Circulating
  BY <1>1, <1>2 DEF Backed, HoldsCirculating
<1>4. /\ row \in TicketRow /\ row.status \in Circulating
      /\ row.owner = tickets[t].owner /\ row.last = tickets[t].last
  BY <1>3 DEF IInv, TypeOK, TicketRow, TicketStatus, Circulating
<1>5. tickets' = [tickets EXCEPT ![t] = row]
  BY <1>3 DEF UnlistWrite, IInv, TypeOK
<1>6. admissions' \in [Ticket -> Nat]
  BY <1>2 DEF IInv, TypeOK
<1> HIDE DEF row
<1> QED
  BY <1>2, <1>3, <1>4, <1>5, <1>6, RelabelStep

LEMMA ScanWriteKeeps ==
    ASSUME IInv, NEW s \in Slot, ScanWrite(s) PROVE IInv'
<1> DEFINE call == calls[s]
           t == call.ticket
           row == [tickets[t] EXCEPT !.status = "USED"]
<1>1. call \in CallRecord /\ Backed(call, tickets, orders)
  BY CurrentCall
<1>2. /\ call.pc = "scan.write" /\ Return(s)
      /\ UNCHANGED <<orders, active, ended, codes, offers>>
  BY DEF ScanWrite
<1>3. t \in Ticket /\ tickets[t].status \in Circulating
  BY <1>1, <1>2 DEF Backed, HoldsCirculating, ScanPc
<1>4. /\ row \in TicketRow /\ row.status \in Circulating
      /\ row.owner = tickets[t].owner /\ row.last = tickets[t].last
  BY <1>3 DEF IInv, TypeOK, TicketRow, TicketStatus, Circulating
<1>5. tickets' = [tickets EXCEPT ![t] = row]
  BY <1>3 DEF ScanWrite, IInv, TypeOK
<1>6. admissions' \in [Ticket -> Nat]
  BY <1>3 DEF ScanWrite, IInv, TypeOK
<1> HIDE DEF row
<1> QED
  BY <1>2, <1>3, <1>4, <1>5, <1>6, RelabelStep

LEMMA SettleWriteKeeps ==
    ASSUME IInv, NEW s \in Slot, SettleWrite(s) PROVE IInv'
<1> DEFINE call == calls[s]
           t == call.ticket
           k == [call EXCEPT !.pc = "settle.done"]
           row == HandedOver(tickets[t], call)
<1>1. call \in CallRecord /\ Backed(call, tickets, orders)
  BY CurrentCall
<1>2. /\ call.pc = "settle.write" /\ Continue(s, k)
      /\ UNCHANGED <<orders, active, ended, codes, offers, admissions>>
  BY DEF SettleWrite
<1>3. /\ call.who \in Customer /\ call.order \in Order
      /\ orders[call.order].status \in Reported
      /\ t = orders[call.order].ticket /\ t \in Ticket
  BY <1>1, <1>2 DEF Backed, SettlePc, IInv, OrdersBacked
<1>4. /\ row \in TicketRow /\ row.status = "SOLD" /\ row.owner = call.who
      /\ row.last = call.order
  <2>1. call.token \in Token \cup {None, Null} /\ call.times + 1 \in Nat
    BY <1>1 DEF CallRecord
  <2>2. tickets[t] \in TicketRow
    BY <1>3 DEF IInv, TypeOK
  <2>3. Column(tickets[t].nft, call.token) \in Token \cup {None}
    BY <2>1, <2>2 DEF TicketRow, Column
  <2> QED
    BY <1>3, <2>1, <2>2, <2>3 DEF HandedOver, TicketRow, TicketStatus
<1>5. tickets' = [tickets EXCEPT ![t] = row]
  BY <1>3 DEF SettleWrite, IInv, TypeOK
<1>6. /\ k \in CallRecord /\ k.pc = "settle.done" /\ k.who = call.who
      /\ k.order = call.order /\ k.ticket = t
  BY <1>1 DEF CallRecord, Pc, SettlePc
<1> HIDE DEF row, k
<1>7. \A u \in Ticket : tickets'[u] = IF u = t THEN row ELSE tickets[u]
  BY <1>5 DEF IInv, TypeOK
<1>8. Grows
  BY <1>2, <1>4, <1>7 DEF Grows, Circulating
<1>9. Backed(k, tickets', orders')
  BY <1>2, <1>3, <1>4, <1>6, <1>7 DEF Backed, Circulating, Reported, CheckoutPc, ScanPc
<1>10. calls' \in [Slot -> CallRecord] /\ CallsBacked'
  BY <1>2, <1>6, <1>8, <1>9, CallStep DEF Continue
<1>11. TypeOK'
  BY <1>2, <1>4, <1>5, <1>10 DEF IInv, TypeOK
<1>12. CirculationBacked'
  BY <1>2, <1>3, <1>4, <1>7 DEF IInv, CirculationBacked, Circulating
<1>13. TransferedMeansHeld' /\ OrdersBacked'
  BY <1>2, <1>8 DEF IInv, TransferedMeansHeld, OrdersBacked, Grows
<1> QED
  BY <1>10, <1>11, <1>12, <1>13 DEF IInv

-----------------------------------------------------------------------------
(* The surroundings, and the theorems *)

LEMMA OutsideKeeps == ASSUME IInv, Outside PROVE IInv'
<1>1. /\ UNCHANGED <<tickets, orders, calls, offers, admissions>>
      /\ active' \subseteq Customer /\ ended' \in BOOLEAN /\ codes' \subseteq Code
  BY DEF Outside, UpdateCustomer, EventEnds, ExpireCode, database, IInv, TypeOK
<1> QED
  BY <1>1 DEF IInv, TypeOK, CirculationBacked, TransferedMeansHeld, OrdersBacked,
       CallsBacked, CallBacked, Free

LEMMA AbortKeeps == ASSUME IInv, NEW s \in Slot, Abort(s) PROVE IInv'
BY ReturnStep DEF Abort, database, IInv, TypeOK

LEMMA InitIInv == Init => IInv
<1> SUFFICES ASSUME Init PROVE IInv
  OBVIOUS
<1>1. FreeOrder \in OrderRow /\ FreeOrder.status = "FREE"
  BY DEF FreeOrder, OrderRow
<1>2. tickets \in [Ticket -> TicketRow]
  BY DEF Init, TicketRow, TicketStatus
<1>3. TypeOK
  BY <1>1, <1>2, IdleIsBacked DEF Init, TypeOK
<1>4. CirculationBacked
  BY DEF Init, CirculationBacked, Circulating
<1>5. TransferedMeansHeld /\ OrdersBacked
  BY <1>1 DEF Init, TransferedMeansHeld, OrdersBacked
<1>6. CallsBacked
  BY IdleIsBacked, BackedIsCallsBacked DEF Init
<1> QED
  BY <1>3, <1>4, <1>5, <1>6 DEF IInv

LEMMA NextIInv == IInv /\ [Next]_vars => IInv'
<1> SUFFICES ASSUME IInv, [Next]_vars PROVE IInv'
  OBVIOUS
<1>1. CASE Outside
  BY <1>1, OutsideKeeps
<1>2. ASSUME NEW s \in Slot, Arrive(s) PROVE IInv'
  BY <1>2, ArriveStep
<1>3. ASSUME NEW s \in Slot, Proceed(s) PROVE IInv'
  BY <1>3, CheckoutReadKeeps, CheckoutSignKeeps, CheckoutCreateKeeps, PayReadKeeps,
     PaySignKeeps, ResaleReadKeeps, ResaleWriteKeeps, UnlistReadKeeps,
     UnlistWriteKeeps, SettleReadKeeps, SettlePaidKeeps, SettleLookKeeps,
     SettleWriteKeeps, SettleDoneKeeps, IssueCodeKeeps, ScanReadKeeps,
     ScanStaffKeeps, ScanHolderKeeps, ScanWriteKeeps, Zenon DEF Proceed
<1>4. ASSUME NEW s \in Slot, Abort(s) PROVE IInv'
  BY <1>4, AbortKeeps
<1>5. CASE UNCHANGED vars
  BY <1>5 DEF vars, IInv, TypeOK, CirculationBacked, TransferedMeansHeld,
     OrdersBacked, CallsBacked, CallBacked, Free
<1> QED
  BY <1>1, <1>2, <1>3, <1>4, <1>5, Zenon DEF Next

\* The invariant that carries all others: it holds in every reachable state.
THEOREM IInvHolds == Spec => []IInv
BY InitIInv, NextIInv, PTL DEF Spec

\* Rows, handler records and history variables keep their types.
THEOREM TypeCorrect == Spec => []TypeOK
<1>1. IInv => TypeOK
  BY DEF IInv
<1> QED
  BY <1>1, IInvHolds, PTL

\* However checkouts, listings, scans and payment reports overlap or are cut
\* short, a ticket circulates exactly when a reported order of its own backs it.
THEOREM CirculationIsBacked == Spec => []CirculationBacked
<1>1. IInv => CirculationBacked
  BY DEF IInv
<1> QED
  BY <1>1, IInvHolds, PTL

\* A completed order always belongs to a ticket somebody holds.
THEOREM CompletedOrdersAreHeld == Spec => []TransferedMeansHeld
<1>1. IInv => TransferedMeansHeld
  BY DEF IInv
<1> QED
  BY <1>1, IInvHolds, PTL

\* What handlers rely on across their awaits stays true of the database.
THEOREM SnapshotsStayBacked == Spec => []CallsBacked
<1>1. IInv => CallsBacked
  BY DEF IInv
<1> QED
  BY <1>1, IInvHolds, PTL

-----------------------------------------------------------------------------
(* Which steps touch tickets and orders *)

\* Every step but the seven writes leaves both tables alone.
LEMMA OnlyWritersWrite ==
    ASSUME [Next]_vars
    PROVE  \/ UNCHANGED <<tickets, orders>>
           \/ \E s \in Slot :
                \/ CheckoutCreate(s) \/ SettlePaid(s) \/ SettleDone(s)
                \/ ResaleWrite(s) \/ UnlistWrite(s) \/ ScanWrite(s)
                \/ SettleWrite(s)
<1>1. CASE Outside
  BY <1>1 DEF Outside, UpdateCustomer, EventEnds, ExpireCode, database
<1>2. ASSUME NEW s \in Slot, Arrive(s) PROVE UNCHANGED <<tickets, orders>>
  BY <1>2 DEF Arrive, Checkout, Pay, Resale, Unlist, UpdateOrder, RequestCode, Scan,
     database
<1>3. ASSUME NEW s \in Slot, Proceed(s),
             ~(CheckoutCreate(s) \/ SettlePaid(s) \/ SettleDone(s) \/ ResaleWrite(s)
               \/ UnlistWrite(s) \/ ScanWrite(s) \/ SettleWrite(s))
      PROVE  UNCHANGED <<tickets, orders>>
  BY <1>3 DEF Proceed, CheckoutRead, CheckoutSign, PayRead, PaySign, ResaleRead,
     UnlistRead, SettleRead, SettleLook, IssueCode, ScanRead, ScanStaff, ScanHolder,
     database
<1>4. ASSUME NEW s \in Slot, Abort(s) PROVE UNCHANGED <<tickets, orders>>
  BY <1>4 DEF Abort, database
<1>5. CASE UNCHANGED vars
  BY <1>5 DEF vars
<1> QED
  BY <1>1, <1>2, <1>3, <1>4, <1>5, Zenon DEF Next

\* What the three relabelling writes and the hand-over do to a row.
LEMMA TicketWrites ==
    ASSUME IInv, NEW s \in Slot,
           ResaleWrite(s) \/ UnlistWrite(s) \/ ScanWrite(s) \/ SettleWrite(s),
           NEW t \in Ticket
    PROVE  /\ orders' = orders
           /\ ~SettleWrite(s) =>
                /\ tickets'[t].owner = tickets[t].owner
                /\ tickets'[t].last = tickets[t].last
                /\ tickets'[t].nft = tickets[t].nft
           /\ SettleWrite(s) =>
                tickets'[t] = IF t = calls[s].ticket
                              THEN HandedOver(tickets[t], calls[s])
                              ELSE tickets[t]
<1>1. tickets[t] \in TicketRow
  BY DEF IInv, TypeOK
<1>2. CASE ResaleWrite(s)
  BY <1>1, <1>2 DEF ResaleWrite, SettleWrite, IInv, TypeOK, TicketRow
<1>3. CASE UnlistWrite(s)
  BY <1>1, <1>3 DEF UnlistWrite, SettleWrite, IInv, TypeOK, TicketRow
<1>4. CASE ScanWrite(s)
  BY <1>1, <1>4 DEF ScanWrite, SettleWrite, IInv, TypeOK, TicketRow
<1>5. CASE SettleWrite(s)
  BY <1>5 DEF SettleWrite, IInv, TypeOK
<1> QED
  BY <1>2, <1>3, <1>4, <1>5

-----------------------------------------------------------------------------
(* What steps do to one order, one ticket and one call *)

\* Orders in use keep what they are about; a reported order stays reported.
LEMMA OrderKept ==
    ASSUME IInv, [Next]_vars, NEW o \in Order, orders[o].status # "FREE"
    PROVE  /\ orders'[o].status # "FREE"
           /\ orders'[o].ticket = orders[o].ticket
           /\ orders'[o].buyer = orders[o].buyer
           /\ orders'[o].seller = orders[o].seller
           /\ orders[o].status \in Reported => orders'[o].status \in Reported
<1>1. orders \in [Order -> OrderRow] /\ orders[o] \in OrderRow
  BY DEF IInv, TypeOK
<1>2. CASE UNCHANGED <<tickets, orders>>
  BY <1>2
<1>3. ASSUME NEW s \in Slot, CheckoutCreate(s)
      PROVE  orders'[o] = orders[o]
  BY <1>1, <1>3 DEF CheckoutCreate, Free
<1>4. ASSUME NEW s \in Slot, SettlePaid(s) \/ SettleDone(s)
      PROVE  /\ orders'[o].status \in {orders[o].status} \cup Reported
             /\ orders'[o].ticket = orders[o].ticket
             /\ orders'[o].buyer = orders[o].buyer
             /\ orders'[o].seller = orders[o].seller
  BY <1>1, <1>4 DEF SettlePaid, SettleDone, OrderRow, Reported
<1>5. ASSUME NEW s \in Slot,
             ResaleWrite(s) \/ UnlistWrite(s) \/ ScanWrite(s) \/ SettleWrite(s)
      PROVE  orders' = orders
  BY <1>5 DEF ResaleWrite, UnlistWrite, ScanWrite, SettleWrite
<1> QED
  BY <1>2, <1>3, <1>4, <1>5, OnlyWritersWrite DEF Reported

\* Owner and last order change together, to the call that writes them.
LEMMA OwnerMoves ==
    ASSUME IInv, [Next]_vars, NEW t \in Ticket
    PROVE  \/ /\ tickets'[t].owner = tickets[t].owner
              /\ tickets'[t].last = tickets[t].last
           \/ \E s \in Slot :
                /\ calls[s].pc = "settle.write"
                /\ tickets'[t].owner = calls[s].who
                /\ tickets'[t].last = calls[s].order
<1>1. CASE UNCHANGED <<tickets, orders>>
  BY <1>1
<1>2. ASSUME NEW s \in Slot, CheckoutCreate(s) \/ SettlePaid(s) \/ SettleDone(s)
      PROVE  tickets' = tickets
  BY <1>2 DEF CheckoutCreate, SettlePaid, SettleDone
<1>3. ASSUME NEW s \in Slot, ResaleWrite(s) \/ UnlistWrite(s) \/ ScanWrite(s)
      PROVE  /\ tickets'[t].owner = tickets[t].owner
             /\ tickets'[t].last = tickets[t].last
  BY <1>3, TicketWrites DEF ResaleWrite, UnlistWrite, ScanWrite, SettleWrite
<1>4. ASSUME NEW s \in Slot, SettleWrite(s), t = calls[s].ticket
      PROVE  /\ calls[s].pc = "settle.write"
             /\ tickets'[t].owner = calls[s].who
             /\ tickets'[t].last = calls[s].order
  <2>1. tickets[t] \in TicketRow
    BY DEF IInv, TypeOK
  <2>2. tickets'[t] = HandedOver(tickets[t], calls[s])
    BY <1>4, TicketWrites
  <2>3. /\ HandedOver(tickets[t], calls[s]).owner = calls[s].who
        /\ HandedOver(tickets[t], calls[s]).last = calls[s].order
    BY <2>1 DEF HandedOver, TicketRow
  <2>4. calls[s].pc = "settle.write"
    BY <1>4 DEF SettleWrite
  <2> QED
    BY <2>2, <2>3, <2>4
<1>5. ASSUME NEW s \in Slot, SettleWrite(s), t # calls[s].ticket
      PROVE  tickets'[t] = tickets[t]
  BY <1>5, TicketWrites
<1> QED
  BY <1>1, <1>2, <1>3, <1>4, <1>5, OnlyWritersWrite

\* A checkout that has read its ticket, and holds who owned it then.
HoldsOwner == {"checkout.sign", "checkout.create"}

\* How a call comes to hold a settlement's order or a checkout's owner.
LEMMA CallMoves ==
    ASSUME IInv, [Next]_vars, NEW r \in Slot
    PROVE  \/ calls'[r] = calls[r]
           \/ calls'[r].pc \notin SettlePc \cup HoldsOwner
           \/ /\ calls'[r].pc = "settle.read"
              /\ calls'[r].order \in Order
              /\ orders[calls'[r].order].status # "FREE"
              /\ OwnOrdersOnly => calls'[r].who = orders[calls'[r].order].buyer
           \/ /\ calls[r].pc \in SettlePc
              /\ calls'[r].pc \in SettlePc
              /\ calls'[r].who = calls[r].who
              /\ calls'[r].order = calls[r].order
           \/ /\ calls[r].pc = "checkout.read"
              /\ calls'[r].pc = "checkout.sign"
              /\ calls'[r].ticket = calls[r].ticket
              /\ calls'[r].holder = tickets[calls[r].ticket].owner
           \/ /\ calls[r].pc = "checkout.sign"
              /\ calls'[r].pc = "checkout.create"
              /\ calls'[r].ticket = calls[r].ticket
              /\ calls'[r].holder = calls[r].holder
<1>1. calls \in [Slot -> CallRecord] /\ calls[r] \in CallRecord
  BY DEF IInv, TypeOK
<1>2. CASE Outside \/ UNCHANGED vars
  BY <1>2 DEF Outside, UpdateCustomer, EventEnds, ExpireCode, vars
<1>3. ASSUME NEW s \in Slot, s # r, Arrive(s) \/ Proceed(s) \/ Abort(s)
      PROVE  calls'[r] = calls[r]
  BY <1>1, <1>3
     DEF Arrive, Proceed, Abort, Begin, Continue, Return,
         Checkout, CheckoutRead, CheckoutSign, CheckoutCreate, Pay, PayRead, PaySign,
         Resale, ResaleRead, ResaleWrite, Unlist, UnlistRead, UnlistWrite,
         UpdateOrder, SettleRead, SettlePaid, SettleLook, SettleWrite, SettleDone,
         RequestCode, IssueCode, Scan, ScanRead, ScanStaff, ScanHolder, ScanWrite
<1>4. CASE Return(r)
  <2>1. calls'[r].pc = "idle"
    BY <1>1, <1>4 DEF Return, Continue, Idle
  <2> QED
    BY <2>1 DEF SettlePc, HoldsOwner
<1>5. CASE Arrive(r)
  <2>1. ASSUME NEW c \in Customer, NEW t \in Ticket, Checkout(r, c, t)
        PROVE  calls'[r].pc = "checkout.read"
    BY <1>1, <2>1 DEF Checkout, Begin, Idle
  <2>3. ASSUME NEW c \in Customer, NEW o \in Order, Pay(r, c, o)
        PROVE  calls'[r].pc = "pay.read"
    BY <1>1, <2>3 DEF Pay, Begin, Idle
  <2>4. ASSUME NEW c \in Customer, NEW t \in Ticket, NEW p \in Price, Resale(r, c, t, p)
        PROVE  calls'[r].pc = "resale.read"
    BY <1>1, <2>4 DEF Resale, Begin, Idle
  <2>5. ASSUME NEW c \in Customer, NEW t \in Ticket, Unlist(r, c, t)
        PROVE  calls'[r].pc = "unlist.read"
    BY <1>1, <2>5 DEF Unlist, Begin, Idle
  <2>6. ASSUME NEW c \in Customer, NEW t \in Ticket, RequestCode(r, c, t)
        PROVE  calls'[r].pc = "code.read"
    BY <1>1, <2>6 DEF RequestCode, Begin, Idle
  <2>7. ASSUME NEW c \in Customer, NEW code \in Code, Scan(r, c, code)
        PROVE  calls'[r].pc = "scan.read"
    BY <1>1, <2>7 DEF Scan, Begin, Idle
  <2>2. ASSUME NEW c \in Customer, NEW o \in Order, NEW k \in Token \cup {None, Null},
               UpdateOrder(r, c, o, k)
        PROVE  /\ calls'[r].pc = "settle.read" /\ calls'[r].order = o
               /\ calls'[r].who = c /\ orders[o].status # "FREE"
               /\ OwnOrdersOnly => c = orders[o].buyer
    BY <1>1, <2>2 DEF UpdateOrder, Begin, Idle
  <2>8. ASSUME calls'[r].pc \in {"checkout.read", "pay.read", "resale.read",
                                "unlist.read", "code.read", "scan.read"}
        PROVE  calls'[r].pc \notin SettlePc \cup HoldsOwner
    BY <2>8 DEF SettlePc, HoldsOwner
  <2> QED
    BY <1>5, <2>1, <2>2, <2>3, <2>4, <2>5, <2>6, <2>7, <2>8 DEF Arrive
<1>6. CASE Proceed(r) /\ ~Return(r)
  <2>1. CASE CheckoutRead(r)
    <3>1. /\ calls[r].pc = "checkout.read"
          /\ calls' = [calls EXCEPT ![r] =
                         [calls[r] EXCEPT !.pc = "checkout.sign",
                            !.holder = tickets[calls[r].ticket].owner,
                            !.price = tickets[calls[r].ticket].price]]
      BY <1>6, <2>1 DEF CheckoutRead, Continue
    <3>2. /\ calls'[r].pc = "checkout.sign"
          /\ calls'[r].ticket = calls[r].ticket
          /\ calls'[r].holder = tickets[calls[r].ticket].owner
      BY <1>1, <3>1 DEF CallRecord
    <3> QED
      BY <3>1, <3>2
  <2>2. CASE CheckoutSign(r)
    <3>1. /\ calls[r].pc = "checkout.sign"
          /\ calls'[r].pc = "checkout.create"
          /\ calls'[r].ticket = calls[r].ticket
          /\ calls'[r].holder = calls[r].holder
      BY <1>1, <2>2 DEF CheckoutSign, Continue, CallRecord
    <3> QED
      BY <3>1
  <2>3. ASSUME SettleRead(r) \/ SettlePaid(r) \/ SettleLook(r) \/ SettleWrite(r)
        PROVE  /\ calls[r].pc \in SettlePc /\ calls'[r].pc \in SettlePc
               /\ calls'[r].who = calls[r].who /\ calls'[r].order = calls[r].order
    <3>1. CASE SettleRead(r)
      BY <1>1, <3>1 DEF SettleRead, Continue, CallRecord, SettlePc
    <3>2. CASE SettlePaid(r)
      BY <1>1, <3>2 DEF SettlePaid, Continue, CallRecord, SettlePc
    <3>3. CASE SettleLook(r)
      BY <1>1, <3>3 DEF SettleLook, Continue, CallRecord, SettlePc
    <3>4. CASE SettleWrite(r)
      BY <1>1, <3>4 DEF SettleWrite, Continue, CallRecord, SettlePc
    <3> QED
      BY <2>3, <3>1, <3>2, <3>3, <3>4
  <2>4. ASSUME PayRead(r) \/ ResaleRead(r) \/ UnlistRead(r) \/ ScanRead(r)
                 \/ ScanStaff(r) \/ ScanHolder(r)
        PROVE  calls'[r].pc \notin SettlePc \cup HoldsOwner
    <3>1. calls'[r].pc \in {"pay.sign", "resale.write", "unlist.write", "scan.staff",
                            "scan.holder", "scan.write"}
      <4>1. CASE PayRead(r)
        BY <1>1, <1>6, <4>1 DEF PayRead, Continue, CallRecord
      <4>2. CASE ResaleRead(r)
        BY <1>1, <1>6, <4>2 DEF ResaleRead, Continue, CallRecord
      <4>3. CASE UnlistRead(r)
        BY <1>1, <1>6, <4>3 DEF UnlistRead, Continue, CallRecord
      <4>4. CASE ScanRead(r)
        BY <1>1, <1>6, <4>4 DEF ScanRead, Continue, CallRecord
      <4>5. CASE ScanStaff(r)
        BY <1>1, <1>6, <4>5 DEF ScanStaff, Continue, CallRecord
      <4>6. CASE ScanHolder(r)
        BY <1>1, <1>6, <4>6 DEF ScanHolder, Continue, CallRecord
      <4> QED
        BY <2>4, <4>1, <4>2, <4>3, <4>4, <4>5, <4>6
    <3> QED
      BY <3>1 DEF SettlePc, HoldsOwner
  <2>5. CASE CheckoutCreate(r) \/ PaySign(r) \/ ResaleWrite(r) \/ UnlistWrite(r)
             \/ SettleDone(r) \/ IssueCode(r) \/ ScanWrite(r)
    BY <1>6, <2>5 DEF CheckoutCreate, PaySign, ResaleWrite, UnlistWrite, SettleDone,
       IssueCode, ScanWrite
  <2> QED
    BY <1>6, <2>1, <2>2, <2>3, <2>4, <2>5, Zenon DEF Proceed
<1>7. CASE Abort(r)
  BY <1>4, <1>7 DEF Abort
<1> QED
  BY <1>2, <1>3, <1>4, <1>5, <1>6, <1>7, Zenon DEF Next

-----------------------------------------------------------------------------
(* The lists a customer is shown *)

\* A used ticket was admitted, whatever happened since.
UsedWasAdmitted ==
    \A t \in Ticket : tickets[t].status = "USED" => admissions[t] > 0

\* Which steps the history variables count.
LEMMA HistoryWrites ==
    ASSUME [Next]_vars
    PROVE  /\ admissions' = admissions \/ \E s \in Slot : ScanWrite(s)
           /\ offers' = offers \/ \E s \in Slot : CheckoutCreate(s) \/ PaySign(s)
<1>1. CASE Outside \/ UNCHANGED vars
  BY <1>1 DEF Outside, UpdateCustomer, EventEnds, ExpireCode, vars
<1>2. ASSUME NEW s \in Slot, Arrive(s) \/ Abort(s)
      PROVE  UNCHANGED <<admissions, offers>>
  BY <1>2 DEF Arrive, Abort, Checkout, Pay, Resale, Unlist, UpdateOrder, RequestCode,
     Scan
<1>3. ASSUME NEW s \in Slot, Proceed(s)
      PROVE  /\ admissions' = admissions \/ ScanWrite(s)
             /\ offers' = offers \/ CheckoutCreate(s) \/ PaySign(s)
  BY <1>3
     DEF Proceed, CheckoutRead, CheckoutSign, CheckoutCreate, PayRead, PaySign,
         ResaleRead, ResaleWrite, UnlistRead, UnlistWrite, SettleRead, SettlePaid,
         SettleLook, SettleWrite, SettleDone, IssueCode, ScanRead, ScanStaff, ScanHolder,
         ScanWrite
<1> QED
  BY <1>1, <1>2, <1>3, Zenon DEF Next

\* Only the gate's write admits, and only it makes a ticket used.
LEMMA OnlyScanAdmits ==
    ASSUME IInv, [Next]_vars, NEW t \in Ticket
    PROVE  \/ /\ admissions'[t] = admissions[t]
              /\ tickets'[t].status = "USED" => tickets[t].status = "USED"
           \/ /\ admissions'[t] > 0
<1>1. /\ tickets \in [Ticket -> TicketRow] /\ tickets[t] \in TicketRow
      /\ admissions \in [Ticket -> Nat] /\ admissions[t] \in Nat
  BY DEF IInv, TypeOK
<1>2. ASSUME NEW s \in Slot, ScanWrite(s)
      PROVE  \/ admissions'[t] > 0
             \/ tickets'[t] = tickets[t] /\ admissions'[t] = admissions[t]
  <2>1. CASE t = calls[s].ticket
    <3>1. admissions'[t] = admissions[t] + 1
      BY <1>1, <1>2, <2>1 DEF ScanWrite
    <3> QED
      BY <1>1, <3>1
  <2>2. CASE t # calls[s].ticket
    BY <1>1, <1>2, <2>2 DEF ScanWrite
  <2> QED
    BY <2>1, <2>2
<1>3. ASSUME ~\E s \in Slot : ScanWrite(s)
      PROVE  admissions' = admissions
  BY <1>3, HistoryWrites
<1>4. ASSUME NEW s \in Slot,
             ResaleWrite(s) \/ UnlistWrite(s) \/ SettleWrite(s),
             tickets'[t].status = "USED"
      PROVE  tickets[t].status = "USED"
  <2>1. CASE ResaleWrite(s)
    BY <1>1, <1>4, <2>1 DEF ResaleWrite, TicketRow
  <2>2. CASE UnlistWrite(s)
    BY <1>1, <1>4, <2>2 DEF UnlistWrite, TicketRow
  <2>3. CASE SettleWrite(s)
    BY <1>1, <1>4, <2>3 DEF SettleWrite, HandedOver, TicketRow
  <2> QED
    BY <1>4, <2>1, <2>2, <2>3
<1>5. ASSUME NEW s \in Slot, CheckoutCreate(s) \/ SettlePaid(s) \/ SettleDone(s)
      PROVE  tickets' = tickets
  BY <1>5 DEF CheckoutCreate, SettlePaid, SettleDone
<1>6. CASE \E s \in Slot : ScanWrite(s)
  BY <1>2, <1>6
<1>7. CASE ~\E s \in Slot : ScanWrite(s)
  <2>1. tickets'[t].status = "USED" => tickets[t].status = "USED"
    BY <1>4, <1>5, <1>7, OnlyWritersWrite
  <2> QED
    BY <1>3, <1>7, <2>1
<1> QED
  BY <1>6, <1>7

\* In every state where circulation is backed and used tickets were admitted,
\* the lists are complete.
LEMMA ListsAreComplete ==
    ASSUME IInv, UsedWasAdmitted
    PROVE  PaidTicketsAreListed
<1> SUFFICES ASSUME NEW t \in Ticket
             PROVE  LET holders == {c \in Customer : t \in TicketsOf(c) \cup ResalesOf(c)}
                    IN  /\ IF tickets[t].last # None
                           THEN holders = {tickets[t].owner}
                           ELSE holders = {}
                        /\ (\E c \in holders : t \in TicketsOf(c) \ UpcomingOf(c))
                             => admissions[t] > 0
  BY DEF PaidTicketsAreListed
<1> DEFINE holders == {c \in Customer : t \in TicketsOf(c) \cup ResalesOf(c)}
<1>1. \/ /\ tickets[t].status \in Circulating
         /\ tickets[t].owner \in Customer /\ tickets[t].last # None
      \/ /\ tickets[t].status \notin Circulating
         /\ tickets[t].owner = None /\ tickets[t].last = None
  BY ConstantsAssumption DEF IInv, CirculationBacked
<1>2. ASSUME NEW c \in Customer
      PROVE  c \in holders <=> /\ tickets[t].owner = c
                               /\ tickets[t].status \in Circulating \cup {"LOCK"}
  BY DEF TicketsOf, ResalesOf, Circulating
<1>3. IF tickets[t].last # None
      THEN holders = {tickets[t].owner}
      ELSE holders = {}
  BY <1>1, <1>2, ConstantsAssumption
<1>4. ASSUME NEW c \in holders, t \in TicketsOf(c) \ UpcomingOf(c)
      PROVE  admissions[t] > 0
  BY <1>4 DEF TicketsOf, UpcomingOf, UsedWasAdmitted
<1> QED
  BY <1>3, <1>4

\* The lists of the customers' tickets miss none that was paid for.
THEOREM ListsMissNoTicket == Spec => []PaidTicketsAreListed
<1>1. Init => UsedWasAdmitted
  BY DEF Init, UsedWasAdmitted
<1>2. IInv /\ UsedWasAdmitted /\ [Next]_vars => UsedWasAdmitted'
  <2> SUFFICES ASSUME IInv, UsedWasAdmitted, [Next]_vars, NEW t \in Ticket,
                      tickets'[t].status = "USED"
               PROVE  admissions'[t] > 0
    BY DEF UsedWasAdmitted
  <2> QED
    BY OnlyScanAdmits DEF UsedWasAdmitted
<1>3. IInv /\ UsedWasAdmitted => PaidTicketsAreListed
  BY ListsAreComplete
<1> QED
  BY <1>1, <1>2, <1>3, IInvHolds, PTL DEF Spec

-----------------------------------------------------------------------------
(* What is final once the handlers that overlapped it are through *)

\* Where a request begins.
Beginning ==
    {"checkout.read", "pay.read", "resale.read", "unlist.read", "settle.read",
     "code.read", "scan.read"}

\* A call that changed and is not at its beginning went on with its own handler.
LEMMA CallProceeds ==
    ASSUME IInv, [Next]_vars, NEW r \in Slot, calls'[r] # calls[r],
           calls'[r].pc \notin {"idle"} \cup Beginning
    PROVE  Proceed(r) /\ ~Return(r)
<1>1. calls \in [Slot -> CallRecord] /\ calls[r] \in CallRecord
  BY DEF IInv, TypeOK
<1>2. ~Outside /\ ~UNCHANGED vars
  BY DEF Outside, UpdateCustomer, EventEnds, ExpireCode, vars
<1>3. ASSUME NEW s \in Slot, s # r PROVE ~(Arrive(s) \/ Proceed(s) \/ Abort(s))
  BY <1>1, <1>3
     DEF Arrive, Proceed, Abort, Begin, Continue, Return,
         Checkout, CheckoutRead, CheckoutSign, CheckoutCreate, Pay, PayRead, PaySign,
         Resale, ResaleRead, ResaleWrite, Unlist, UnlistRead, UnlistWrite,
         UpdateOrder, SettleRead, SettlePaid, SettleLook, SettleWrite, SettleDone,
         RequestCode, IssueCode, Scan, ScanRead, ScanStaff, ScanHolder, ScanWrite
<1>4. ~Return(r)
  BY <1>1 DEF Return, Continue, Idle
<1>5. ~Arrive(r)
  <2> USE DEF Begin, Idle, Beginning
  <2>1. \A c \in Customer, t \in Ticket : ~Checkout(r, c, t)
    BY <1>1 DEF Checkout
  <2>2. \A c \in Customer, o \in Order : ~Pay(r, c, o)
    BY <1>1 DEF Pay
  <2>3. \A c \in Customer, t \in Ticket, p \in Price : ~Resale(r, c, t, p)
    BY <1>1 DEF Resale
  <2>4. \A c \in Customer, t \in Ticket : ~Unlist(r, c, t) /\ ~RequestCode(r, c, t)
    BY <1>1 DEF Unlist, RequestCode
  <2>5. \A c \in Customer, o \in Order, k \in Token \cup {None, Null} :
          ~UpdateOrder(r, c, o, k)
    BY <1>1 DEF UpdateOrder
  <2>6. \A c \in Customer, code \in Code : ~Scan(r, c, code)
    BY <1>1 DEF Scan
  <2> QED
    BY <2>1, <2>2, <2>3, <2>4, <2>5, <2>6, Zenon DEF Arrive
<1> QED
  BY <1>2, <1>3, <1>4, <1>5, Zenon DEF Next, Abort

\* Where a handler waits to write, to admit or to sign what it decided on.
Waiting ==
    {"resale.write", "unlist.write", "scan.staff", "scan.holder", "scan.write",
     "settle.write", "pay.sign"}

\* What a handler saw when it came to wait there.
LEMMA WaitingMoves ==
    ASSUME IInv, [Next]_vars, NEW r \in Slot, calls'[r] # calls[r],
           calls'[r].pc \in Waiting
    PROVE  \/ /\ calls'[r].pc \in {"resale.write", "unlist.write", "scan.staff"}
              /\ calls'[r].ticket = calls[r].ticket
              /\ tickets[calls[r].ticket].status # "USED"
           \/ /\ calls'[r].pc \in {"scan.holder", "scan.write"}
              /\ calls[r].pc \in {"scan.staff", "scan.holder"}
              /\ calls'[r].ticket = calls[r].ticket
           \/ /\ calls'[r].pc = "settle.write"
              /\ calls'[r].ticket = calls[r].ticket
              /\ tickets[calls[r].ticket].nft # None =>
                   calls'[r].token = tickets[calls[r].ticket].nft
           \/ /\ calls'[r].pc = "pay.sign"
              /\ calls'[r].order = calls[r].order
              /\ orders[calls[r].order].status = "NEW"
<1>1. calls \in [Slot -> CallRecord] /\ calls[r] \in CallRecord
  BY DEF IInv, TypeOK
<1>2. Proceed(r) /\ ~Return(r)
  BY CallProceeds DEF Waiting, Beginning
<1>3. ~(CheckoutCreate(r) \/ PaySign(r) \/ ResaleWrite(r) \/ UnlistWrite(r)
         \/ SettleDone(r) \/ IssueCode(r) \/ ScanWrite(r))
  BY <1>2, Zenon
     DEF CheckoutCreate, PaySign, ResaleWrite, UnlistWrite, SettleDone, IssueCode,
         ScanWrite
<1> USE DEF Continue, CallRecord
<1>4. ~(CheckoutSign(r) \/ SettlePaid(r) \/ SettleWrite(r))
  <2>1. ~CheckoutSign(r)
    BY <1>1 DEF CheckoutSign, Waiting
  <2>2. ~SettlePaid(r)
    BY <1>1 DEF SettlePaid, Waiting
  <2>3. ~SettleWrite(r)
    BY <1>1 DEF SettleWrite, Waiting
  <2> QED
    BY <2>1, <2>2, <2>3
<1>5. ~CheckoutRead(r)
  <2> DEFINE row == tickets[calls[r].ticket]
             k == [calls[r] EXCEPT !.pc = "checkout.sign", !.holder = row.owner,
                                   !.price = row.price]
  <2>1. k.pc = "checkout.sign"
    BY <1>1
  <2>2. CheckoutRead(r) => calls'[r] = k
    BY <1>1, <1>2 DEF CheckoutRead
  <2> QED
    BY <2>1, <2>2 DEF Waiting
<1>6. ~SettleRead(r)
  <2> DEFINE t == orders[calls[r].order].ticket
             k == [calls[r] EXCEPT !.pc = "settle.paid", !.ticket = t,
                                   !.times = tickets[t].times]
  <2>1. k.pc = "settle.paid"
    BY <1>1
  <2>2. SettleRead(r) => calls'[r] = k
    BY <1>1 DEF SettleRead
  <2> QED
    BY <2>1, <2>2 DEF Waiting
<1>7. CASE PayRead(r)
  BY <1>1, <1>2, <1>7 DEF PayRead, Payable
<1>8. CASE ResaleRead(r)
  BY <1>1, <1>2, <1>8 DEF ResaleRead, Resellable
<1>9. CASE UnlistRead(r)
  BY <1>1, <1>2, <1>9 DEF UnlistRead, Listed
<1>10. CASE ScanRead(r)
  BY <1>1, <1>2, <1>10 DEF ScanRead, Admissible
<1>11. CASE ScanStaff(r)
  BY <1>1, <1>2, <1>11 DEF ScanStaff
<1>12. CASE ScanHolder(r)
  BY <1>1, <1>2, <1>12 DEF ScanHolder
<1>13. CASE SettleLook(r)
  <2> DEFINE nft == tickets[calls[r].ticket].nft
             k == [calls[r] EXCEPT !.pc = "settle.write",
                     !.token = IF nft # None THEN nft ELSE calls[r].token]
  <2>1. /\ k.pc = "settle.write" /\ k.ticket = calls[r].ticket
        /\ nft # None => k.token = nft
    BY <1>1
  <2>2. calls'[r] = k
    BY <1>1, <1>13 DEF SettleLook
  <2> QED
    BY <2>1, <2>2
<1> QED
  BY <1>2, <1>3, <1>4, <1>5, <1>6, <1>7, <1>8, <1>9, <1>10, <1>11, <1>12, <1>13, Zenon
     DEF Proceed

\* Overlapping reports may replace a token or erase it only while one of them
\* looked before it was stored; afterwards it is settled for good.
THEOREM TokensAreKept == Spec => TokenStaysSettled
<1> DEFINE Kept(t) == TokenSettled(t) =>
                        TokenSettled(t)' /\ tickets'[t].nft = tickets[t].nft
<1>1. ASSUME IInv, [Next]_vars, NEW t \in Ticket PROVE Kept(t)
  <2> SUFFICES ASSUME TokenSettled(t)
               PROVE  TokenSettled(t)' /\ tickets'[t].nft = tickets[t].nft
    OBVIOUS
  <2>1. /\ tickets[t] \in TicketRow /\ tickets[t].nft \in Token
        /\ calls \in [Slot -> CallRecord]
    BY <1>1 DEF IInv, TypeOK, TicketRow, TokenSettled
  <2>2. tickets'[t].nft = tickets[t].nft
    <3>1. ASSUME NEW s \in Slot, SettleWrite(s), calls[s].ticket = t
          PROVE  HandedOver(tickets[t], calls[s]).nft = tickets[t].nft
      <4>1. calls[s].token \in {None, tickets[t].nft}
        BY <3>1 DEF SettleWrite, TokenSettled
      <4>2. Column(tickets[t].nft, calls[s].token) = tickets[t].nft
        BY <2>1, <4>1, ConstantsAssumption DEF Column
      <4> QED
        BY <2>1, <4>2 DEF HandedOver, TicketRow
    <3>2. ASSUME NEW s \in Slot,
                 ResaleWrite(s) \/ UnlistWrite(s) \/ ScanWrite(s) \/ SettleWrite(s)
          PROVE  tickets'[t].nft = tickets[t].nft
      BY <1>1, <3>1, <3>2, TicketWrites
    <3> QED
      BY <1>1, <3>2, OnlyWritersWrite DEF CheckoutCreate, SettlePaid, SettleDone
  <2>3. ASSUME NEW r \in Slot, calls'[r].pc = "settle.write", calls'[r].ticket = t
        PROVE  calls'[r].token \in {None, tickets[t].nft}
    BY <1>1, <2>1, <2>3, WaitingMoves DEF Waiting, TokenSettled
  <2> QED
    BY <2>1, <2>2, <2>3 DEF TokenSettled
<1>2. IInv /\ [Next]_vars => [\A t \in Ticket : Kept(t)]_vars
  BY <1>1
<1> QED
  BY <1>2, IInvHolds, PTL DEF Spec, TokenStaysSettled

\* A used ticket that no overlapping handler is still about to touch is listed
\* or admitted again only after a payment report: of any number of requests, and
\* wherever they are cut short.
THEOREM UsedStaysUsed == Spec => SpentStaysSpent
<1> DEFINE Settles(t) == \E s \in Slot :
                /\ calls[s].pc = "settle.write" /\ calls[s].ticket = t
                /\ calls'[s].pc = "settle.done"
           Kept(t) == Spent(t) =>
                admissions'[t] = admissions[t] /\ (Spent(t)' \/ Settles(t))
<1>1. ASSUME IInv, [Next]_vars, NEW t \in Ticket PROVE Kept(t)
  <2> SUFFICES ASSUME Spent(t), ~Settles(t)
               PROVE  admissions'[t] = admissions[t] /\ Spent(t)'
    <3>1. ASSUME Spent(t) PROVE admissions'[t] = admissions[t]
      BY <1>1, <3>1, HistoryWrites DEF ScanWrite, Spent, IInv, TypeOK
    <3> QED
      BY <3>1
  <2>1. /\ tickets \in [Ticket -> TicketRow] /\ admissions \in [Ticket -> Nat]
        /\ calls \in [Slot -> CallRecord]
    BY <1>1 DEF IInv, TypeOK
  <2>2. admissions'[t] = admissions[t]
    BY <1>1, <2>1, HistoryWrites DEF ScanWrite, Spent
  <2>3. ASSUME NEW s \in Slot,
               ResaleWrite(s) \/ UnlistWrite(s) \/ ScanWrite(s) \/ SettleWrite(s)
        PROVE  tickets'[t] = tickets[t]
    <3>1. ASSUME SettleWrite(s), calls[s].ticket = t PROVE FALSE
      <4>1. calls'[s].pc = "settle.done"
        BY <2>1, <3>1 DEF SettleWrite, Continue, CallRecord
      <4> QED
        BY <3>1, <4>1 DEF SettleWrite
    <3>2. CASE calls[s].ticket # t
      BY <2>1, <2>3, <3>2 DEF ResaleWrite, UnlistWrite, ScanWrite, SettleWrite
    <3>3. CASE calls[s].ticket = t
      BY <2>3, <3>1, <3>3 DEF ResaleWrite, UnlistWrite, ScanWrite, Spent
    <3> QED
      BY <3>2, <3>3
  <2>4. tickets'[t] = tickets[t]
    BY <1>1, <2>3, OnlyWritersWrite DEF CheckoutCreate, SettlePaid, SettleDone
  <2>5. ASSUME NEW r \in Slot, calls'[r].ticket = t
        PROVE  calls'[r].pc \notin {"resale.write", "unlist.write", "scan.staff",
                                   "scan.holder", "scan.write"}
    BY <1>1, <2>5, WaitingMoves DEF Waiting, Spent
  <2> QED
    BY <2>2, <2>4, <2>5 DEF Spent
<1>2. IInv /\ [Next]_vars =>
        [\A t \in Ticket :
           Spent(t) =>
              /\ admissions'[t] = admissions[t]
              /\ \/ Spent(t)'
                 \/ \E s \in Slot :
                      /\ calls[s].pc = "settle.write" /\ calls[s].ticket = t
                      /\ calls'[s].pc = "settle.done"]_vars
  BY <1>1
<1> QED
  BY <1>2, IInvHolds, PTL DEF Spec, SpentStaysSpent

\* Once the requests that read an order before its payment was reported are
\* answered, nobody is given another transaction to pay it with.
THEOREM NobodyPaysTwice == Spec => PaidOffersEnd
<1> DEFINE Kept(o) == Paid(o) =>
                        /\ Paid(o)'
                        /\ \A offer \in offers' \ offers : offer.order # o
<1>1. ASSUME IInv, [Next]_vars, NEW o \in Order PROVE Kept(o)
  <2> SUFFICES ASSUME Paid(o)
               PROVE  Paid(o)' /\ \A offer \in offers' \ offers : offer.order # o
    OBVIOUS
  <2>1. orders'[o].status \in Reported
    BY <1>1, OrderKept DEF Paid, Reported
  <2>2. ASSUME NEW r \in Slot, calls'[r].pc = "pay.sign", calls'[r].order = o
        PROVE  FALSE
    BY <1>1, <2>2, WaitingMoves DEF Waiting, Paid, Reported
  <2>3. ASSUME NEW s \in Slot, CheckoutCreate(s) \/ PaySign(s),
               NEW offer \in offers' \ offers
        PROVE  offer.order # o
    <3>1. CASE CheckoutCreate(s)
      BY <2>3, <3>1 DEF CheckoutCreate, Free, Paid, Reported
    <3>2. CASE PaySign(s)
      BY <2>3, <3>2 DEF PaySign, Paid
    <3> QED
      BY <2>3, <3>1, <3>2
  <2>4. \A offer \in offers' \ offers : offer.order # o
    BY <1>1, <2>3, HistoryWrites
  <2> QED
    BY <2>1, <2>2, <2>4 DEF Paid
<1>2. IInv /\ [Next]_vars => [\A o \in Order : Kept(o)]_vars
  BY <1>1
<1> QED
  BY <1>2, IInvHolds, PTL DEF Spec, PaidOffersEnd

-----------------------------------------------------------------------------
(* Owners, sellers and codes, while clients report their own orders *)

\* A report in progress is made by the buyer of its order.
ReportsAreOwn ==
    OwnOrdersOnly =>
        \A s \in Slot :
            calls[s].pc \in SettlePc => calls[s].who = orders[calls[s].order].buyer

LEMMA OwnershipStep ==
    ASSUME IInv, [Next]_vars, ReportsAreOwn, OwnerIsLastBuyer
    PROVE  ReportsAreOwn' /\ OwnerIsLastBuyer'
<1>1. ASSUME NEW s \in Slot, calls[s].pc \in SettlePc
      PROVE  /\ calls[s].order \in Order
             /\ orders[calls[s].order].status # "FREE"
             /\ orders'[calls[s].order].buyer = orders[calls[s].order].buyer
  <2>1. calls[s].order \in Order /\ orders[calls[s].order].status # "FREE"
    BY <1>1 DEF IInv, CallsBacked, CallBacked, Free
  <2> QED
    BY <2>1, OrderKept
<1>2. ASSUME OwnOrdersOnly, NEW r \in Slot, calls'[r].pc \in SettlePc
      PROVE  calls'[r].who = orders'[calls'[r].order].buyer
  <2>1. CASE calls'[r] = calls[r]
    BY <1>1, <1>2, <2>1 DEF ReportsAreOwn
  <2>2. CASE /\ calls'[r].order \in Order
             /\ orders[calls'[r].order].status # "FREE"
             /\ OwnOrdersOnly => calls'[r].who = orders[calls'[r].order].buyer
    BY <1>2, <2>2, OrderKept
  <2>3. CASE /\ calls[r].pc \in SettlePc
             /\ calls'[r].who = calls[r].who
             /\ calls'[r].order = calls[r].order
    BY <1>1, <1>2, <2>3 DEF ReportsAreOwn
  <2>4. calls'[r].pc # "checkout.sign" /\ calls'[r].pc # "checkout.create"
    BY <1>2 DEF SettlePc
  <2> QED
    BY <1>2, <2>1, <2>2, <2>3, <2>4, CallMoves
<1>3. ASSUME OwnOrdersOnly, NEW t \in Ticket, tickets'[t].last # None
      PROVE  /\ tickets'[t].last \in Order
             /\ tickets'[t].owner = orders'[tickets'[t].last].buyer
  <2>1. CASE tickets'[t].owner = tickets[t].owner /\ tickets'[t].last = tickets[t].last
    <3>1. tickets[t].last \in Order /\ orders[tickets[t].last].status # "FREE"
      BY <1>3, <2>1 DEF IInv, CirculationBacked, Reported
    <3>2. orders'[tickets[t].last].buyer = orders[tickets[t].last].buyer
      BY <3>1, OrderKept
    <3> QED
      BY <1>3, <2>1, <3>1, <3>2 DEF OwnerIsLastBuyer, OrdersBuyer
  <2>2. ASSUME NEW s \in Slot, calls[s].pc = "settle.write",
               tickets'[t].owner = calls[s].who, tickets'[t].last = calls[s].order
        PROVE  /\ tickets'[t].last \in Order
               /\ tickets'[t].owner = orders'[tickets'[t].last].buyer
    <3>1. calls[s].pc \in SettlePc
      BY <2>2 DEF SettlePc
    <3> QED
      BY <1>1, <1>3, <2>2, <3>1 DEF ReportsAreOwn
  <2> QED
    BY <2>1, <2>2, OwnerMoves
<1> QED
  BY <1>2, <1>3, Zenon DEF ReportsAreOwn, OwnerIsLastBuyer, OrdersBuyer

LEMMA OwnershipInit == Init => ReportsAreOwn /\ OwnerIsLastBuyer
BY DEF Init, ReportsAreOwn, OwnerIsLastBuyer, Idle, SettlePc

\* Overlapping reports of competing orders never mix the owner of one with the
\* order of another.
THEOREM OwnersAreBuyers == Spec => []OwnerIsLastBuyer
BY OwnershipInit, OwnershipStep, IInvHolds, PTL DEF Spec

\* The owner a checkout has read had paid for the ticket.
CheckoutsHadPaid ==
    OwnOrdersOnly =>
        \A s \in Slot :
            calls[s].pc \in HoldsOwner /\ calls[s].holder # None =>
                HasPaidFor(calls[s].holder, calls[s].ticket)

\* HasPaidFor with the order table as a parameter, so that it can be asked of
\* a call of one state and the orders of another.
PaidIn(od, c, t) ==
    \E o \in Order :
        od[o].ticket = t /\ od[o].buyer = c /\ od[o].status \in Reported

\* Who has paid for a ticket has paid for it ever after.
LEMMA PaidForEver ==
    ASSUME IInv, [Next]_vars, NEW c, NEW t, HasPaidFor(c, t)
    PROVE  PaidIn(orders', c, t)
<1>1. PICK o \in Order : /\ orders[o].ticket = t
                         /\ orders[o].buyer = c
                         /\ orders[o].status \in Reported
  BY DEF HasPaidFor
<1>2. orders[o].status # "FREE"
  BY <1>1 DEF Reported
<1>3. /\ orders'[o].ticket = t
      /\ orders'[o].buyer = c
      /\ orders'[o].status \in Reported
  BY <1>1, <1>2, OrderKept
<1> QED
  BY <1>3 DEF PaidIn

\* The owner of a ticket has paid for it.
LEMMA OwnerHasPaid ==
    ASSUME IInv, OwnOrdersOnly, OwnerIsLastBuyer, NEW t \in Ticket,
           tickets[t].owner # None
    PROVE  HasPaidFor(tickets[t].owner, t)
<1>1. /\ tickets[t].last \in Order
      /\ orders[tickets[t].last].ticket = t
      /\ orders[tickets[t].last].status \in Reported
  BY DEF IInv, CirculationBacked
<1>2. orders[tickets[t].last].buyer = tickets[t].owner
  BY <1>1, ConstantsAssumption DEF OwnerIsLastBuyer, OrdersBuyer
<1> QED
  BY <1>1, <1>2 DEF HasPaidFor

\* Where an order's seller comes from.
LEMMA SellerMoves ==
    ASSUME IInv, [Next]_vars, NEW o \in Order
    PROVE  \/ /\ orders'[o].seller = orders[o].seller
              /\ orders'[o].ticket = orders[o].ticket
           \/ \E s \in Slot :
                /\ calls[s].pc = "checkout.create"
                /\ orders'[o].seller = calls[s].holder
                /\ orders'[o].ticket = calls[s].ticket
<1>1. orders \in [Order -> OrderRow] /\ orders[o] \in OrderRow
  BY DEF IInv, TypeOK
<1>2. CASE UNCHANGED <<tickets, orders>>
  BY <1>2
<1>3. ASSUME NEW s \in Slot, CheckoutCreate(s)
      PROVE  \/ orders'[o] = orders[o]
             \/ /\ calls[s].pc = "checkout.create"
                /\ orders'[o].seller = calls[s].holder
                /\ orders'[o].ticket = calls[s].ticket
  BY <1>1, <1>3 DEF CheckoutCreate, NewOrder
<1>4. ASSUME NEW s \in Slot, SettlePaid(s) \/ SettleDone(s)
      PROVE  /\ orders'[o].seller = orders[o].seller
             /\ orders'[o].ticket = orders[o].ticket
  BY <1>1, <1>4 DEF SettlePaid, SettleDone, OrderRow
<1>5. ASSUME NEW s \in Slot,
             ResaleWrite(s) \/ UnlistWrite(s) \/ ScanWrite(s) \/ SettleWrite(s)
      PROVE  orders' = orders
  BY <1>5 DEF ResaleWrite, UnlistWrite, ScanWrite, SettleWrite
<1> QED
  BY <1>2, <1>3, <1>4, <1>5, OnlyWritersWrite

\* Where a check-in code comes from.
LEMMA CodeMoves ==
    ASSUME IInv, [Next]_vars, NEW code \in codes'
    PROVE  \/ code \in codes
           \/ /\ code.ticket \in Ticket
              /\ code.customer = tickets[code.ticket].owner
              /\ code.customer # None
<1>1. ASSUME ~\E s \in Slot : IssueCode(s)
      PROVE  codes' \subseteq codes
  <2>1. CASE Outside \/ UNCHANGED vars
    BY <2>1 DEF Outside, UpdateCustomer, EventEnds, ExpireCode, vars
  <2>2. ASSUME NEW s \in Slot, Arrive(s) \/ Abort(s) PROVE codes' = codes
    BY <2>2 DEF Arrive, Abort, Checkout, Pay, Resale, Unlist, UpdateOrder, RequestCode,
       Scan
  <2>3. ASSUME NEW s \in Slot, Proceed(s) PROVE codes' = codes
    BY <1>1, <2>3
       DEF Proceed, CheckoutRead, CheckoutSign, CheckoutCreate, PayRead, PaySign,
           ResaleRead, ResaleWrite, UnlistRead, UnlistWrite, SettleRead, SettlePaid,
           SettleLook, SettleWrite, SettleDone, ScanRead, ScanStaff, ScanHolder, ScanWrite
  <2> QED
    BY <2>1, <2>2, <2>3, Zenon DEF Next
<1>2. ASSUME NEW s \in Slot, IssueCode(s), code \notin codes
      PROVE  /\ code.ticket \in Ticket
             /\ code.customer = tickets[code.ticket].owner
             /\ code.customer # None
  <2>1. /\ code = [ticket |-> calls[s].ticket, customer |-> calls[s].who]
        /\ Admissible(tickets[calls[s].ticket], calls[s].who)
        /\ calls[s].pc = "code.read"
    BY <1>2 DEF IssueCode
  <2>2. calls[s].ticket \in Ticket /\ calls[s].who \in Customer
    BY <2>1 DEF IInv, CallsBacked, CallBacked
  <2> QED
    BY <2>1, <2>2, ConstantsAssumption DEF Admissible
<1> QED
  BY <1>1, <1>2

LEMMA SellersStep ==
    ASSUME IInv, [Next]_vars, OwnerIsLastBuyer, CheckoutsHadPaid, SellersHadPaid
    PROVE  CheckoutsHadPaid' /\ SellersHadPaid'
<1>1. ASSUME OwnOrdersOnly, NEW r \in Slot,
             calls'[r].pc \in HoldsOwner, calls'[r].holder # None
      PROVE  PaidIn(orders', calls'[r].holder, calls'[r].ticket)
  <2>1. CASE calls'[r] = calls[r]
    <3>1. HasPaidFor(calls[r].holder, calls[r].ticket)
      BY <1>1, <2>1 DEF CheckoutsHadPaid
    <3> QED
      BY <2>1, <3>1, PaidForEver
  <2>2. CASE /\ calls[r].pc = "checkout.read"
             /\ calls'[r].ticket = calls[r].ticket
             /\ calls'[r].holder = tickets[calls[r].ticket].owner
    <3>1. calls[r].ticket \in Ticket
      BY <2>2 DEF IInv, CallsBacked, CallBacked, CheckoutPc
    <3>2. HasPaidFor(tickets[calls[r].ticket].owner, calls[r].ticket)
      BY <1>1, <2>2, <3>1, OwnerHasPaid
    <3> QED
      BY <2>2, <3>2, PaidForEver
  <2>3. CASE /\ calls[r].pc = "checkout.sign"
             /\ calls'[r].ticket = calls[r].ticket
             /\ calls'[r].holder = calls[r].holder
    <3>1. HasPaidFor(calls[r].holder, calls[r].ticket)
      BY <1>1, <2>3 DEF CheckoutsHadPaid, HoldsOwner
    <3> QED
      BY <2>3, <3>1, PaidForEver
  <2>4. calls'[r].pc \notin SettlePc
    BY <1>1 DEF HoldsOwner, SettlePc
  <2>5. calls'[r].pc # "settle.read"
    BY <1>1 DEF HoldsOwner
  <2> QED
    BY <1>1, <2>1, <2>2, <2>3, <2>4, <2>5, CallMoves
<1>2. ASSUME OwnOrdersOnly, NEW o \in Order, orders'[o].seller # None
      PROVE  PaidIn(orders', orders'[o].seller, orders'[o].ticket)
  <2>1. PICK c, t : c = orders'[o].seller /\ t = orders'[o].ticket /\ HasPaidFor(c, t)
    <3>1. CASE /\ orders'[o].seller = orders[o].seller
               /\ orders'[o].ticket = orders[o].ticket
      <4>1. orders[o] \in OrderRow
        BY DEF IInv, TypeOK
      <4>2. orders[o].seller \in Customer
        BY <1>2, <3>1, <4>1 DEF OrderRow
      <4> QED
        BY <1>2, <3>1, <4>2 DEF SellersHadPaid, OrdersSeller
    <3>2. ASSUME NEW s \in Slot, calls[s].pc = "checkout.create",
                 orders'[o].seller = calls[s].holder, orders'[o].ticket = calls[s].ticket
          PROVE  HasPaidFor(orders'[o].seller, orders'[o].ticket)
      BY <1>2, <3>2 DEF CheckoutsHadPaid, HoldsOwner
    <3> QED
      BY <3>1, <3>2, SellerMoves
  <2> QED
    BY <2>1, PaidForEver
<1>3. ASSUME OwnOrdersOnly, NEW code \in codes'
      PROVE  PaidIn(orders', code.customer, code.ticket)
  <2>1. HasPaidFor(code.customer, code.ticket)
    BY <1>3, CodeMoves, OwnerHasPaid DEF SellersHadPaid
  <2> QED
    BY <2>1, PaidForEver
<1>4. CheckoutsHadPaid'
  BY <1>1, Zenon DEF CheckoutsHadPaid, HasPaidFor, PaidIn
<1>5. ASSUME OwnOrdersOnly, NEW c \in Customer, NEW o \in OrdersSeller(c)'
      PROVE  HasPaidFor(c, orders[o].ticket)'
  <2>1. o \in Order /\ orders'[o].seller = c /\ c # None
    BY <1>5, ConstantsAssumption DEF OrdersSeller
  <2> QED
    BY <1>2, <1>5, <2>1 DEF HasPaidFor, PaidIn
<1> QED
  BY <1>3, <1>4, <1>5, Zenon DEF SellersHadPaid, HasPaidFor, PaidIn

LEMMA SellersInit == Init => CheckoutsHadPaid /\ SellersHadPaid
BY ConstantsAssumption
   DEF Init, CheckoutsHadPaid, SellersHadPaid, OrdersSeller, Idle, HoldsOwner, FreeOrder

\* Whoever an order names as its seller, or a code as its customer, once paid
\* for the ticket.
THEOREM SellersPaid == Spec => []SellersHadPaid
BY OwnershipInit, OwnershipStep, SellersInit, SellersStep, IInvHolds, PTL DEF Spec

-----------------------------------------------------------------------------
(* No payment is left half done *)

\* A report between its first and its last write.
Reporting == {"settle.look", "settle.write", "settle.done"}

\* Writes a report still owes, that of the order's completion included.
Owes(pc) ==
    CASE pc = "settle.look" -> 3
      [] pc = "settle.write" -> 2
      [] pc = "settle.done" -> 1

\* A handler moves by its own segments only; what others do leaves it alone.
LEMMA OnlyItsOwn ==
    ASSUME calls \in [Slot -> CallRecord], [Next]_vars,
           NEW r \in Slot, calls[r] # Idle
    PROVE  calls'[r] = calls[r] \/ Proceed(r) \/ Abort(r)
<1>1. ASSUME Outside \/ UNCHANGED vars PROVE calls' = calls
  BY <1>1 DEF Outside, UpdateCustomer, EventEnds, ExpireCode, vars
<1>2. ASSUME NEW s \in Slot, s # r, Arrive(s) \/ Proceed(s) \/ Abort(s)
      PROVE  calls'[r] = calls[r]
  BY <1>2
     DEF Arrive, Proceed, Abort, Begin, Continue, Return,
         Checkout, CheckoutRead, CheckoutSign, CheckoutCreate, Pay, PayRead, PaySign,
         Resale, ResaleRead, ResaleWrite, Unlist, UnlistRead, UnlistWrite,
         UpdateOrder, SettleRead, SettlePaid, SettleLook, SettleWrite, SettleDone,
         RequestCode, IssueCode, Scan, ScanRead, ScanStaff, ScanHolder, ScanWrite
<1>3. ASSUME Arrive(r) PROVE FALSE
  BY <1>3, Zenon
     DEF Arrive, Begin, Checkout, Pay, Resale, Unlist, UpdateOrder, RequestCode, Scan
<1> QED
  BY <1>1, <1>2, <1>3, Zenon DEF Next

\* The segment a report runs next: one write nearer its end, still for the same
\* order, or the last, which completes that order.
LEMMA ReportProceeds ==
    ASSUME IInv, NEW r \in Slot, calls[r].pc \in Reporting, Proceed(r)
    PROVE  \/ /\ calls'[r].pc \in Reporting
              /\ calls'[r].order = calls[r].order
              /\ Owes(calls'[r].pc) < Owes(calls[r].pc)
           \/ /\ calls'[r] = Idle
              /\ orders'[calls[r].order].status = "TRANSFERED"
<1>1. /\ orders \in [Order -> OrderRow] /\ calls \in [Slot -> CallRecord]
      /\ calls[r] \in CallRecord
  BY DEF IInv, TypeOK
<1>2. calls[r].order \in Order
  BY DEF IInv, CallsBacked, CallBacked, Reporting, SettlePc
<1>3. SettleLook(r) \/ SettleWrite(r) \/ SettleDone(r)
  <2>1. ~CheckoutRead(r) /\ ~CheckoutSign(r) /\ ~CheckoutCreate(r)
    BY DEF Reporting, CheckoutRead, CheckoutSign, CheckoutCreate
  <2>2. ~PayRead(r) /\ ~PaySign(r)
    BY DEF Reporting, PayRead, PaySign
  <2>3. ~ResaleRead(r) /\ ~ResaleWrite(r) /\ ~UnlistRead(r) /\ ~UnlistWrite(r)
    BY DEF Reporting, ResaleRead, ResaleWrite, UnlistRead, UnlistWrite
  <2>4. ~SettleRead(r) /\ ~SettlePaid(r) /\ ~IssueCode(r)
    BY DEF Reporting, SettleRead, SettlePaid, IssueCode
  <2>5. ~ScanRead(r) /\ ~ScanStaff(r) /\ ~ScanHolder(r) /\ ~ScanWrite(r)
    BY DEF Reporting, ScanRead, ScanStaff, ScanHolder, ScanWrite
  <2> QED
    BY <2>1, <2>2, <2>3, <2>4, <2>5, Zenon DEF Proceed
<1>4. CASE SettleLook(r)
  BY <1>1, <1>4 DEF SettleLook, Continue, CallRecord, Reporting, Owes
<1>5. CASE SettleWrite(r)
  BY <1>1, <1>5 DEF SettleWrite, Continue, CallRecord, Reporting, Owes
<1>6. CASE SettleDone(r)
  <2>1. calls'[r] = Idle
    BY <1>1, <1>6 DEF SettleDone, Return, Continue
  <2>2. orders' = [orders EXCEPT ![calls[r].order].status = "TRANSFERED"]
    BY <1>6 DEF SettleDone
  <2>3. orders'[calls[r].order].status = "TRANSFERED"
    BY <1>1, <1>2, <2>2 DEF OrderRow
  <2> QED
    BY <2>1, <2>3
<1> QED
  BY <1>3, <1>4, <1>5, <1>6

LEMMA InFlightStep ==
    ASSUME IInv, [Next]_vars, PaidIsInFlight
    PROVE  PaidIsInFlight'
<1> SUFFICES ASSUME ~Faults, NEW o \in Order, orders'[o].status = "PAID"
             PROVE  \E s \in Slot : calls'[s].pc \in Reporting /\ calls'[s].order = o
  BY DEF PaidIsInFlight, Reporting
<1>1. /\ orders \in [Order -> OrderRow] /\ orders[o] \in OrderRow
      /\ calls \in [Slot -> CallRecord]
  BY DEF IInv, TypeOK
<1>2. ASSUME NEW s \in Slot, SettlePaid(s), calls[s].order = o
      PROVE  calls'[s].pc \in Reporting /\ calls'[s].order = o
  <2>1. calls[s] \in CallRecord
    BY <1>1
  <2> QED
    BY <1>1, <1>2, <2>1 DEF SettlePaid, Continue, CallRecord, Reporting
<1>3. ASSUME ~\E s \in Slot : SettlePaid(s) /\ calls[s].order = o
      PROVE  orders[o].status = "PAID"
  <2>1. CASE UNCHANGED <<tickets, orders>>
    BY <2>1
  <2>2. ASSUME NEW s \in Slot, CheckoutCreate(s) PROVE orders'[o] = orders[o]
    BY <1>1, <2>2 DEF CheckoutCreate, NewOrder
  <2>3. ASSUME NEW s \in Slot, SettlePaid(s) PROVE orders'[o] = orders[o]
    BY <1>1, <1>3, <2>3 DEF SettlePaid
  <2>4. ASSUME NEW s \in Slot, SettleDone(s) PROVE orders'[o] = orders[o]
    BY <1>1, <2>4 DEF SettleDone, OrderRow
  <2>5. ASSUME NEW s \in Slot,
               ResaleWrite(s) \/ UnlistWrite(s) \/ ScanWrite(s) \/ SettleWrite(s)
        PROVE  orders' = orders
    BY <2>5 DEF ResaleWrite, UnlistWrite, ScanWrite, SettleWrite
  <2> QED
    BY <2>1, <2>2, <2>3, <2>4, <2>5, OnlyWritersWrite
<1>4. ASSUME orders[o].status = "PAID"
      PROVE  \E s \in Slot : calls'[s].pc \in Reporting /\ calls'[s].order = o
  <2>1. PICK r \in Slot : calls[r].pc \in Reporting /\ calls[r].order = o
    BY <1>4 DEF PaidIsInFlight, Reporting
  <2>2. calls[r] # Idle /\ ~Abort(r)
    BY <2>1 DEF Idle, Reporting, Abort
  <2>3. CASE Proceed(r)
    BY <2>1, <2>3, ReportProceeds
  <2> QED
    BY <1>1, <2>1, <2>2, <2>3, OnlyItsOwn
<1> QED
  BY <1>2, <1>3, <1>4

\* Without faults nothing leaves a reported order unsettled but the report that
\* is settling it.
THEOREM PaidOrdersAreInFlight == Spec => []PaidIsInFlight
<1>1. Init => PaidIsInFlight
  BY DEF Init, PaidIsInFlight, FreeOrder
<1> QED
  BY <1>1, InFlightStep, IInvHolds, PTL DEF Spec

\* What remains of PaidGetsTransfered when fairness is set aside: without
\* faults no step by anyone turns a report back, sends it to another order or
\* ends it early.  Each of its own steps leaves it fewer writes to do, and the
\* last of them completes the order.
ReportMovesOn(s) ==
    calls[s].pc \in Reporting =>
        \/ calls'[s] = calls[s]
        \/ /\ calls'[s].pc \in Reporting
           /\ calls'[s].order = calls[s].order
           /\ Owes(calls'[s].pc) < Owes(calls[s].pc)
        \/ /\ calls'[s] = Idle
           /\ orders'[calls[s].order].status = "TRANSFERED"

ReportsMoveOn == [][~Faults => \A s \in Slot : ReportMovesOn(s)]_vars

THEOREM ReportsReachTheirEnd == Spec => ReportsMoveOn
<1>1. ASSUME IInv, [Next]_vars, ~Faults, NEW s \in Slot PROVE ReportMovesOn(s)
  <2> SUFFICES ASSUME calls[s].pc \in Reporting PROVE ReportMovesOn(s)
    BY DEF ReportMovesOn
  <2>1. calls[s] # Idle /\ ~Abort(s)
    BY <1>1 DEF Idle, Reporting, Abort
  <2>2. calls \in [Slot -> CallRecord]
    BY <1>1 DEF IInv, TypeOK
  <2> QED
    BY <1>1, <2>1, <2>2, OnlyItsOwn, ReportProceeds, Zenon DEF ReportMovesOn
<1>2. IInv /\ [Next]_vars => [~Faults => \A s \in Slot : ReportMovesOn(s)]_vars
  BY <1>1
<1> QED
  BY <1>2, IInvHolds, PTL DEF Spec, ReportsMoveOn

-----------------------------------------------------------------------------
(* Trading implements custody *)

LEMMA CustodyInit == Init => Custody!Init
BY DEF Init, Custody!Init, FreeOrder, Stage

\* The only writes custody sees: opening, reporting, passing on, closing.
LEMMA CustodyStep == IInv /\ [Next]_vars => [Custody!Next]_(Custody!vars)
<1> SUFFICES ASSUME IInv, [Next]_vars
             PROVE  Custody!Next \/ UNCHANGED Custody!vars
  OBVIOUS
<1>1. CASE UNCHANGED <<tickets, orders>>
  BY <1>1 DEF Custody!vars
<1>2. ASSUME NEW s \in Slot, ResaleWrite(s) \/ UnlistWrite(s) \/ ScanWrite(s)
      PROVE  UNCHANGED Custody!vars
  <2>1. /\ orders' = orders
        /\ \A t \in Ticket : /\ tickets'[t].owner = tickets[t].owner
                             /\ tickets'[t].last = tickets[t].last
    BY <1>2, TicketWrites DEF ResaleWrite, UnlistWrite, ScanWrite, SettleWrite
  <2> QED
    BY <2>1 DEF Custody!vars
<1>3. ASSUME NEW s \in Slot, CheckoutCreate(s) PROVE Custody!Next
  <2>1. PICK o \in Order : /\ orders[o].status = "FREE"
                           /\ orders' = [orders EXCEPT ![o] = NewOrder(calls[s])]
    BY <1>3 DEF CheckoutCreate, Free
  <2>2. PICK t \in Ticket : t = calls[s].ticket
    BY <1>3, CurrentCall DEF CheckoutCreate, Backed, CheckoutPc
  <2>3. /\ tickets' = tickets
        /\ \A x \in Order : x # o => orders'[x] = orders[x]
        /\ orders'[o].ticket = t /\ orders'[o].status = "NEW"
    BY <1>3, <2>1, <2>2 DEF CheckoutCreate, NewOrder, IInv, TypeOK
  <2>4. Stage("FREE") = "free" /\ Stage("NEW") = "open"
    BY DEF Stage
  <2>5. [x \in Order |-> Stage(orders'[x].status)] =
          [[x \in Order |-> Stage(orders[x].status)] EXCEPT ![o] = "open"]
    BY <2>3, <2>4
  <2>6. [x \in Order |-> orders'[x].ticket] =
          [[x \in Order |-> orders[x].ticket] EXCEPT ![o] = t]
    BY <2>3
  <2>7. Custody!Open(o, t)
    BY <2>1, <2>3, <2>4, <2>5, <2>6 DEF Custody!Open
  <2> QED
    BY <2>7 DEF Custody!Next
<1>4. ASSUME NEW s \in Slot, SettlePaid(s) PROVE Custody!Next
  <2>1. PICK o \in Order : o = calls[s].order /\ orders[o].status # "FREE"
    BY <1>4, CurrentCall DEF SettlePaid, Backed, SettlePc
  <2>2. orders \in [Order -> OrderRow] /\ orders[o] \in OrderRow
    BY <2>1 DEF IInv, TypeOK
  <2>3. /\ tickets' = tickets
        /\ \A x \in Order : orders'[x].ticket = orders[x].ticket
        /\ \A x \in Order :
             orders'[x].status = IF x = o THEN "PAID" ELSE orders[x].status
    BY <1>4, <2>1, <2>2 DEF SettlePaid, OrderRow
  <2>4. Custody!Report(o)
    BY <2>1, <2>3 DEF Custody!Report, Stage
  <2> QED
    BY <2>1, <2>4 DEF Custody!Next
<1>5. ASSUME NEW s \in Slot, SettleWrite(s) PROVE Custody!Next
  <2>1. PICK o \in Order, c \in Customer :
          /\ o = calls[s].order /\ c = calls[s].who
          /\ orders[o].status \in Reported
          /\ calls[s].ticket = orders[o].ticket
    BY <1>5, CurrentCall DEF SettleWrite, Backed, SettlePc
  <2>2. orders[o].ticket \in Ticket
    BY <2>1 DEF IInv, OrdersBacked, Reported
  <2>3. \A t \in Ticket :
          tickets'[t] = IF t = orders[o].ticket
                        THEN HandedOver(tickets[t], calls[s]) ELSE tickets[t]
    BY <1>5, <2>1, TicketWrites
  <2>4. \A t \in Ticket : /\ HandedOver(tickets[t], calls[s]).owner = c
                          /\ HandedOver(tickets[t], calls[s]).last = o
    BY <2>1 DEF HandedOver, IInv, TypeOK, TicketRow
  <2>5. orders' = orders
    BY <1>5 DEF SettleWrite
  <2>6. Custody!PassTo(o, c)
    <3>1. Stage(orders[o].status) \in {"reported", "closed"}
      BY <2>1 DEF Stage, Reported
    <3>2. /\ [t \in Ticket |-> tickets'[t].owner] =
               [[t \in Ticket |-> tickets[t].owner] EXCEPT ![orders[o].ticket] = c]
          /\ [t \in Ticket |-> tickets'[t].last] =
               [[t \in Ticket |-> tickets[t].last] EXCEPT ![orders[o].ticket] = o]
      BY <2>2, <2>3, <2>4
    <3> QED
      BY <2>1, <2>2, <2>5, <3>1, <3>2 DEF Custody!PassTo
  <2> QED
    BY <2>6 DEF Custody!Next
<1>6. ASSUME NEW s \in Slot, SettleDone(s) PROVE Custody!Next
  <2>1. PICK o \in Order :
          /\ o = calls[s].order /\ orders[o].status \in Reported
          /\ calls[s].ticket = orders[o].ticket
          /\ tickets[orders[o].ticket].status \in Circulating
    BY <1>6, CurrentCall DEF SettleDone, Backed, SettlePc, HoldsCirculating
  <2>2. orders[o].ticket \in Ticket
    BY <2>1 DEF IInv, OrdersBacked, Reported
  <2>3. tickets[orders[o].ticket].owner # None
    BY <2>1, <2>2, ConstantsAssumption DEF IInv, CirculationBacked
  <2>4. orders \in [Order -> OrderRow] /\ orders[o] \in OrderRow
    BY <2>1 DEF IInv, TypeOK
  <2>5. /\ tickets' = tickets
        /\ \A x \in Order : orders'[x].ticket = orders[x].ticket
        /\ \A x \in Order :
             orders'[x].status = IF x = o THEN "TRANSFERED" ELSE orders[x].status
    BY <1>6, <2>1, <2>4 DEF SettleDone, OrderRow
  <2>6. Custody!Close(o)
    <3>1. Stage(orders[o].status) \in {"reported", "closed"}
      BY <2>1 DEF Stage, Reported
    <3>2. [x \in Order |-> Stage(orders'[x].status)] =
            [[x \in Order |-> Stage(orders[x].status)] EXCEPT ![o] = "closed"]
      <4>1. Stage("TRANSFERED") = "closed"
        BY DEF Stage
      <4>2. \A x \in Order : Stage(orders'[x].status) =
              IF x = o THEN "closed" ELSE Stage(orders[x].status)
        BY <2>5, <4>1
      <4> QED
        BY <2>1, <4>2
    <3> QED
      BY <2>1, <2>2, <2>3, <2>5, <3>1, <3>2 DEF Custody!Close
  <2> QED
    BY <2>1, <2>6 DEF Custody!Next
<1> QED
  BY <1>1, <1>2, <1>3, <1>4, <1>5, <1>6, OnlyWritersWrite

\* Every behaviour of trading, seen through owner, last order and order status,
\* is a behaviour of TicketCustody.
THEOREM TradingImplementsCustody == Spec => ImplementsCustody
BY CustodyInit, CustodyStep, IInvHolds, PTL DEF Spec, ImplementsCustody, Custody!Spec

-----------------------------------------------------------------------------
(* Trading does to the organizer's tables what EventLifecycle says it does *)

\* The tables of EventLifecycle as trading sees them: one event with one type,
\* which it does not touch, and no request of the organizer.
Ordered == {orders[o].ticket : o \in Order \ Free}

Organizer == INSTANCE EventLifecycle WITH
    Event <- {"event"}, Type <- {"type"}, Seat <- {}, Avatar <- {},
    Person <- Customer, OwnTypesOnly <- TRUE, Faults <- FALSE,
    Inputs <- {"trade"}, Slot <- {},
    events <- {}, types <- {}, staff <- {}, used <- {}, pinned <- {}, chain <- {},
    calls <- {},
    tickets <- [t \in Ticket |->
                  [status |-> tickets[t].status, event |-> "event",
                   type |-> "type", seat |-> None]],
    ordered <- Ordered

OrganizerTrade ==
    \E t \in Ticket : Organizer!PlaceOrder(t) \/ Organizer!Trade(t)

\* checkoutTicket's last segment is a PlaceOrder.
LEMMA OrderIsPlaced ==
    ASSUME IInv, NEW s \in Slot, CheckoutCreate(s)
    PROVE  OrganizerTrade
<1>1. PICK o \in Free : orders' = [orders EXCEPT ![o] = NewOrder(calls[s])]
  BY DEF CheckoutCreate
<1>2. PICK t \in Ticket : t = calls[s].ticket
  BY CurrentCall DEF CheckoutCreate, Backed, CheckoutPc
<1>3. /\ orders \in [Order -> OrderRow] /\ tickets \in [Ticket -> TicketRow]
      /\ tickets' = tickets
  BY DEF IInv, TypeOK, CheckoutCreate
<1>4. Ordered' = Ordered \cup {t}
  BY <1>1, <1>2, <1>3 DEF Ordered, Free, NewOrder
<1>5. tickets[t].status # "NONE"
  BY <1>3 DEF TicketRow, TicketStatus
<1>6. Organizer!PlaceOrder(t)
  BY <1>3, <1>4, <1>5 DEF Organizer!PlaceOrder
<1> QED
  BY <1>6 DEF OrganizerTrade

\* Writes to tickets are a Trade: of a ticket with an order, into circulation.
LEMMA WriteIsTrade ==
    ASSUME IInv, NEW s \in Slot,
           ResaleWrite(s) \/ UnlistWrite(s) \/ ScanWrite(s) \/ SettleWrite(s)
    PROVE  OrganizerTrade
<1>1. /\ tickets \in [Ticket -> TicketRow] /\ orders' = orders
      /\ Backed(calls[s], tickets, orders)
  BY CurrentCall DEF IInv, TypeOK, ResaleWrite, UnlistWrite, ScanWrite, SettleWrite
<1>2. PICK t \in Ticket : t = calls[s].ticket /\ t \in Ordered
  <2>1. CASE SettleWrite(s)
    BY <1>1, <2>1 DEF SettleWrite, Backed, SettlePc, Ordered, Free, IInv, OrdersBacked
  <2>2. CASE ResaleWrite(s) \/ UnlistWrite(s) \/ ScanWrite(s)
    <3>1. calls[s].ticket \in Ticket /\ tickets[calls[s].ticket].status \in Circulating
      BY <1>1, <2>2
         DEF ResaleWrite, UnlistWrite, ScanWrite, Backed, HoldsCirculating, CheckoutPc,
             ScanPc, IInv, CirculationBacked, Circulating
    <3>2. PICK o \in Order : /\ o = tickets[calls[s].ticket].last
                             /\ orders[o].ticket = calls[s].ticket
                             /\ orders[o].status \in Reported
      BY <3>1 DEF IInv, CirculationBacked
    <3> QED
      BY <3>1, <3>2 DEF Ordered, Free, Reported
  <2> QED
    BY <2>1, <2>2
<1>3. PICK st \in Circulating : \A u \in Ticket :
        tickets'[u].status = IF u = t THEN st ELSE tickets[u].status
  <2>1. CASE ResaleWrite(s)
    BY <1>1, <1>2, <2>1 DEF ResaleWrite, TicketRow, Circulating
  <2>2. CASE UnlistWrite(s)
    BY <1>1, <1>2, <2>2 DEF UnlistWrite, TicketRow, Circulating
  <2>3. CASE ScanWrite(s)
    BY <1>1, <1>2, <2>3 DEF ScanWrite, TicketRow, Circulating
  <2>4. CASE SettleWrite(s)
    BY <1>1, <1>2, <2>4 DEF SettleWrite, HandedOver, TicketRow, Circulating
  <2> QED
    BY <2>1, <2>2, <2>3, <2>4
<1>4. Ordered' = Ordered
  BY <1>1 DEF Ordered, Free
<1>5. Organizer!Trade(t)
  <2> DEFINE Shown(status) ==
          [status |-> status, event |-> "event", type |-> "type", seat |-> None]
             view == [u \in Ticket |-> Shown(tickets[u].status)]
  <2>1. view[t] = Shown(tickets[t].status)
    OBVIOUS
  <2>2. [Shown(tickets[t].status) EXCEPT !.status = st] = Shown(st)
    OBVIOUS
  <2>3. [u \in Ticket |-> Shown(tickets'[u].status)]
          = [view EXCEPT ![t] = [view[t] EXCEPT !.status = st]]
    <3>1. [u \in Ticket |-> Shown(tickets'[u].status)] = [view EXCEPT ![t] = Shown(st)]
      BY <1>3
    <3> QED
      BY <2>1, <2>2, <3>1
  <2> QED
    BY <1>2, <1>4, <2>3 DEF Organizer!Trade, Organizer!Circulating, Circulating
<1> QED
  BY <1>5 DEF OrganizerTrade

\* A report changes an order's status and the set of tickets with orders not.
LEMMA ReportIsHidden ==
    ASSUME IInv, NEW s \in Slot, SettlePaid(s) \/ SettleDone(s)
    PROVE  UNCHANGED <<tickets, Ordered>>
<1>1. /\ orders \in [Order -> OrderRow] /\ tickets' = tickets
      /\ calls[s].order \in Order /\ orders[calls[s].order].status # "FREE"
  BY CurrentCall DEF IInv, TypeOK, SettlePaid, SettleDone, Backed, SettlePc
<1>2. \A o \in Order : /\ orders'[o].ticket = orders[o].ticket
                       /\ orders'[o].status = "FREE" <=> orders[o].status = "FREE"
  BY <1>1 DEF SettlePaid, SettleDone, OrderRow
<1> QED
  BY <1>1, <1>2 DEF Ordered, Free

\* What EventLifecycle assumes of trading when it deletes and edits tickets is so:
\* a step of trading places an order for an existing ticket, or changes the status
\* of a ticket that has one to one of those Trade allows.
THEOREM TradingIsAsLifecycleAssumes ==
    Spec => [][OrganizerTrade]_(Organizer!vars)
<1>1. ASSUME IInv, [Next]_vars PROVE OrganizerTrade \/ UNCHANGED Organizer!vars
  <2>1. UNCHANGED <<tickets, Ordered>> => UNCHANGED Organizer!vars
    BY DEF Organizer!vars, Organizer!rows
  <2>2. UNCHANGED <<tickets, orders>> => UNCHANGED <<tickets, Ordered>>
    BY DEF Ordered, Free
  <2> QED
    BY <1>1, <2>1, <2>2, OnlyWritersWrite, OrderIsPlaced, WriteIsTrade, ReportIsHidden
<1> QED
  BY <1>1, IInvHolds, PTL DEF Spec

\* A ticket found on sale at checkout is on sale or sold when the order is stored.
Buyable == {"NEW"} \cup Circulating

CheckoutsBuyable ==
    \A s \in Slot :
        calls[s].pc \in {"checkout.sign", "checkout.create"} =>
            tickets[calls[s].ticket].status \in Buyable

\* No step withdraws a buyable ticket.
LEMMA BuyableGrows ==
    ASSUME IInv, [Next]_vars, NEW t \in Ticket, tickets[t].status \in Buyable
    PROVE  tickets'[t].status \in Buyable
<1>1. CASE UNCHANGED tickets
  BY <1>1
<1>2. ASSUME NEW s \in Slot,
             ResaleWrite(s) \/ UnlistWrite(s) \/ ScanWrite(s) \/ SettleWrite(s)
      PROVE  tickets'[t].status \in Buyable
  <2>1. tickets \in [Ticket -> TicketRow] /\ tickets[t] \in TicketRow
    BY DEF IInv, TypeOK
  <2>2. ~SettleWrite(s) =>
          \E st \in Circulating :
            tickets'[t].status \in {tickets[t].status, st}
    BY <1>2, <2>1 DEF ResaleWrite, UnlistWrite, ScanWrite, TicketRow, Circulating
  <2>3. CASE SettleWrite(s)
    BY <2>1, <2>3 DEF SettleWrite, HandedOver, TicketRow, Buyable, Circulating
  <2> QED
    BY <2>2, <2>3 DEF Buyable
<1> QED
  BY <1>1, <1>2, OnlyWritersWrite DEF CheckoutCreate, SettlePaid, SettleDone

LEMMA BuyableStep == ASSUME IInv, [Next]_vars, CheckoutsBuyable PROVE CheckoutsBuyable'
<1> SUFFICES ASSUME NEW r \in Slot,
                    calls'[r].pc \in {"checkout.sign", "checkout.create"}
             PROVE  tickets'[calls'[r].ticket].status \in Buyable
  BY DEF CheckoutsBuyable
<1>1. calls \in [Slot -> CallRecord] /\ calls[r] \in CallRecord
  BY DEF IInv, TypeOK
<1>2. CASE calls'[r] = calls[r]
  <2>1. calls[r].ticket \in Ticket /\ tickets[calls[r].ticket].status \in Buyable
    BY <1>2, CurrentCall DEF Backed, CheckoutPc, CheckoutsBuyable
  <2> QED
    BY <1>2, <2>1, BuyableGrows
<1>3. CASE calls'[r] # calls[r]
  <2>5. Proceed(r) /\ ~Return(r)
    BY <1>3, CallProceeds DEF Beginning
  <2>6. CheckoutRead(r) \/ CheckoutSign(r)
    <3>1. ~(CheckoutCreate(r) \/ PaySign(r) \/ ResaleWrite(r) \/ UnlistWrite(r)
             \/ SettleDone(r) \/ IssueCode(r) \/ ScanWrite(r))
      BY <2>5, Zenon
         DEF CheckoutCreate, PaySign, ResaleWrite, UnlistWrite, SettleDone, IssueCode,
             ScanWrite
    <3> USE DEF Continue, CallRecord
    <3>2. ~(PayRead(r) \/ ResaleRead(r) \/ UnlistRead(r))
      BY <1>1, <2>5 DEF PayRead, ResaleRead, UnlistRead
    <3>3. ~(SettlePaid(r) \/ SettleWrite(r))
      BY <1>1 DEF SettlePaid, SettleWrite
    <3>4. ~SettleRead(r)
      <4> DEFINE k == [calls[r] EXCEPT !.pc = "settle.paid",
                         !.ticket = orders[calls[r].order].ticket,
                         !.times = tickets[orders[calls[r].order].ticket].times]
      <4>1. k.pc = "settle.paid"
        BY <1>1
      <4>2. SettleRead(r) => calls'[r] = k
        BY <1>1 DEF SettleRead
      <4> QED
        BY <4>1, <4>2
    <3>5. ~SettleLook(r)
      <4> DEFINE nft == tickets[calls[r].ticket].nft
                 k == [calls[r] EXCEPT !.pc = "settle.write",
                         !.token = IF nft # None THEN nft ELSE calls[r].token]
      <4>1. k.pc = "settle.write"
        BY <1>1
      <4>2. SettleLook(r) => calls'[r] = k
        BY <1>1 DEF SettleLook
      <4> QED
        BY <4>1, <4>2
    <3>6. ~(ScanRead(r) \/ ScanStaff(r) \/ ScanHolder(r))
      BY <1>1, <2>5 DEF ScanRead, ScanStaff, ScanHolder
    <3> QED
      BY <2>5, <3>1, <3>2, <3>3, <3>4, <3>5, <3>6, Zenon DEF Proceed
  <2>7. /\ calls'[r].ticket = calls[r].ticket /\ tickets' = tickets
        /\ CheckoutRead(r) => Sellable(tickets[calls[r].ticket])
    BY <1>1, <2>5, <2>6 DEF CheckoutRead, CheckoutSign, Continue, CallRecord, database
  <2> QED
    BY <2>6, <2>7
       DEF CheckoutSign, CheckoutsBuyable, Sellable, Buyable, Circulating
<1> QED
  BY <1>2, <1>3

\* Storefront's PlaceOrder assumes it of every ticket its organizer edits have
\* not overtaken: an order that is stored is for a ticket on sale, or sold since
\* its checkout began.
THEOREM OrderedTicketsWereBuyable ==
    Spec => [][\A o \in Order :
                 orders[o].status = "FREE" /\ orders'[o].status # "FREE" =>
                     tickets[orders'[o].ticket].status \in Buyable]_vars
<1>1. ASSUME IInv, CheckoutsBuyable, [Next]_vars, NEW o \in Order,
             orders[o].status = "FREE", orders'[o].status # "FREE"
      PROVE  tickets[orders'[o].ticket].status \in Buyable
  <2>1. PICK s \in Slot : CheckoutCreate(s) \/ SettlePaid(s) \/ SettleDone(s)
    BY <1>1, OnlyWritersWrite DEF ResaleWrite, UnlistWrite, ScanWrite, SettleWrite
  <2>2. orders \in [Order -> OrderRow] /\ Backed(calls[s], tickets, orders)
    BY <1>1, CurrentCall DEF IInv, TypeOK
  <2>3. CheckoutCreate(s)
    BY <1>1, <2>1, <2>2 DEF SettlePaid, SettleDone, Backed, SettlePc
  <2>4. orders'[o].ticket = calls[s].ticket /\ calls[s].pc = "checkout.create"
    BY <1>1, <2>2, <2>3 DEF CheckoutCreate, NewOrder
  <2> QED
    BY <1>1, <2>4 DEF CheckoutsBuyable
<1>2. Init => CheckoutsBuyable
  BY DEF Init, CheckoutsBuyable, Idle
<1>3. IInv /\ CheckoutsBuyable /\ [Next]_vars
        => [\A o \in Order :
              orders[o].status = "FREE" /\ orders'[o].status # "FREE" =>
                  tickets[orders'[o].ticket].status \in Buyable]_vars
  BY <1>1
<1> QED
  BY <1>2, <1>3, BuyableStep, IInvHolds, PTL DEF Spec

=============================================================================
