----------------------------- MODULE MCRunEvents -----------------------------
(***************************************************************************)
(* RunEvents on a small instance; the configuration gives the bounds.      *)
(***************************************************************************)
EXTENDS RunEvents
=============================================================================
