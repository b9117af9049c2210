---------------------------- MODULE MCCredentials ----------------------------
(***************************************************************************)
(* Credentials on a small instance, with the rotation of the runbook: a    *)
(* second master key and its version at once, and later without the first. *)
(***************************************************************************)
EXTENDS Credentials

MCRollout == <<[keys |-> {1}, version |-> 1], [keys |-> {1, 2}, version |-> 2],
               [keys |-> {2}, version |-> 2]>>
=============================================================================
