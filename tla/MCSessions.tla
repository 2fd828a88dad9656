----------------------------- MODULE MCSessions -----------------------------
(***************************************************************************)
(* Instance of AdminSessions for TLC.                                      *)
(***************************************************************************)
EXTENDS AdminSessions

=============================================================================
