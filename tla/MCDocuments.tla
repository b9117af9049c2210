----------------------------- MODULE MCDocuments -----------------------------
(***************************************************************************)
(* Documents on a small instance; the configuration gives the constants.   *)
(***************************************************************************)
EXTENDS Documents
=============================================================================
