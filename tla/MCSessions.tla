----------------------------- MODULE MCSessions -----------------------------
(* Sessions on small instances; the configurations give the constants.      *)
EXTENDS Sessions
=============================================================================
