---------------------------- MODULE MCLifecycle ----------------------------
(***************************************************************************)
(* Instances of EventLifecycle for TLC.  Identifiers, requests in flight   *)
(* and seats are interchangeable.                                          *)
(***************************************************************************)
EXTENDS EventLifecycle, TLC

Symmetry ==
    Permutations(Event) \cup Permutations(Type) \cup Permutations(Ticket)
    \cup Permutations(Slot) \cup Permutations(Avatar)

=============================================================================
