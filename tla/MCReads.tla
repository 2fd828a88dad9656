------------------------------ MODULE MCReads ------------------------------
(***************************************************************************)
(* The reading side of the backend.  Its parts share no state; a behaviour *)
(* is about one of them, so that the run is the sum of their states and    *)
(* not the product.  So are the stages of an event, of which tickets tell  *)
(* nothing, and its counters, of which the time tells nothing: these are   *)
(* looked at on the horizon, where the clock has one reading left.         *)
(***************************************************************************)
EXTENDS Storefront, Paging, MenuTree, TLC

VARIABLE part  \* what the behaviour is about

At(release, start, end, stop, checkIn) ==
    [release |-> release, start |-> start, end |-> end, stop |-> stop,
     checkIn |-> checkIn]

\* A proper schedule, check-in from long before the start, a release after the
\* start, spans of minutes below zero, everything backwards, and a sale that
\* stops before its release.
Schedules ==
    {At(1, 3, 4, 1, 1), At(0, 2, 3, 0, 3), At(2, 1, 3, 1, 0),
     At(0, 1, 3, -1, -1), At(3, 2, 1, 0, 0), At(1, 2, 3, 2, 1)}

\* Tickets are interchangeable.
Symmetry == Permutations(Ticket)

\* Counters: the event's times are those of one schedule.
CountersNext ==
    \/ now < Horizon /\ Tick
    \/ now = Horizon /\ (Announce \/ Offer \/ Sell \/ Read)

MCInit ==
    /\ part \in {"stages", "counters", "pages", "menus"}
    /\ Init /\ PagingInit /\ MenuInit
    /\ part = "counters" => event.times = At(1, 3, 4, 1, 1)

MCNext ==
    /\ UNCHANGED part
    /\ \/ /\ part = "stages"
          /\ Tick \/ Reschedule \/ Announce \/ Read
          /\ UNCHANGED <<pagingVars, menus>>
       \/ part = "counters" /\ CountersNext /\ UNCHANGED <<pagingVars, menus>>
       \/ part = "pages" /\ PagingNext /\ UNCHANGED <<vars, menus>>
       \/ part = "menus" /\ MenuNext /\ UNCHANGED <<vars, pagingVars>>

MCSpec == MCInit /\ [][MCNext]_<<vars, pagingVars, menus, part>>

=============================================================================
