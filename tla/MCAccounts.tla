----------------------------- MODULE MCAccounts -----------------------------
(***************************************************************************)
(* Instances of CustomerAccounts for TLC: two people, the first of whom    *)
(* has all the wallets and all e-mail addresses but one.                   *)
(***************************************************************************)
EXTENDS CustomerAccounts, TLC

CONSTANTS
    p1, p2, e2,  \* the people, and the e-mail address of the second
    x0           \* the terms of a new row

\* Taking both rights away, and giving both.
Requests ==
    {[grant |-> {}, revoke |-> Grantable], [grant |-> Grantable, revoke |-> {}]}

Holder == [x \in Address |-> IF x = e2 THEN p2 ELSE p1]

=============================================================================
