--------------------------- MODULE TicketCustody ---------------------------
(***************************************************************************)
(* What trading promises about who holds a ticket, without handlers,       *)
(* requests in flight or ticket statuses: a ticket passes to a customer    *)
(* only on a reported order for that ticket, the ticket remembers that     *)
(* order, and an order is closed only once its ticket is held.             *)
(***************************************************************************)
CONSTANTS Customer, Ticket, Order, None

VARIABLES
    holder,   \* who holds each ticket
    title,    \* the order by which they hold it
    subject,  \* the ticket each order is for
    stage     \* "free", "open", "reported" or "closed"

vars == <<holder, title, subject, stage>>

Init ==
    /\ holder = [t \in Ticket |-> None]
    /\ title = [t \in Ticket |-> None]
    /\ subject = [o \in Order |-> None]
    /\ stage = [o \in Order |-> "free"]

\* A buyer opens an order; the ticket itself is not touched.
Open(o, t) ==
    /\ stage[o] = "free"
    /\ stage' = [stage EXCEPT ![o] = "open"]
    /\ subject' = [subject EXCEPT ![o] = t]
    /\ UNCHANGED <<holder, title>>

\* The payment is reported; reports may be repeated.
Report(o) ==
    /\ stage[o] # "free"
    /\ stage' = [stage EXCEPT ![o] = "reported"]
    /\ UNCHANGED <<holder, title, subject>>

\* The ticket passes to c together with its title.
PassTo(o, c) ==
    /\ stage[o] \in {"reported", "closed"}
    /\ subject[o] \in Ticket
    /\ holder' = [holder EXCEPT ![subject[o]] = c]
    /\ title' = [title EXCEPT ![subject[o]] = o]
    /\ UNCHANGED <<subject, stage>>

Close(o) ==
    /\ stage[o] \in {"reported", "closed"}
    /\ subject[o] \in Ticket
    /\ holder[subject[o]] # None
    /\ stage' = [stage EXCEPT ![o] = "closed"]
    /\ UNCHANGED <<holder, title, subject>>

Next ==
    \E o \in Order :
        \/ \E t \in Ticket : Open(o, t)
        \/ Report(o)
        \/ \E c \in Customer : PassTo(o, c)
        \/ Close(o)

Spec == Init /\ [][Next]_vars

=============================================================================
