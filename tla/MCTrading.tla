----------------------------- MODULE MCTrading -----------------------------
(***************************************************************************)
(* Instances of TicketTrading for TLC.  Model values are interchangeable   *)
(* in every constant but Staff, so they may be permuted.                   *)
(***************************************************************************)
EXTENDS TicketTrading, TLC

\* Sound where Staff is all of Customer or none of it.
Symmetry ==
    Permutations(Slot) \cup Permutations(Order) \cup Permutations(Customer)

=============================================================================
