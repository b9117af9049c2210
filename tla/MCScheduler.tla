----------------------------- MODULE MCScheduler -----------------------------
(***************************************************************************)
(* Scheduler on a small calendar.  Both profiles are due at minutes 1 and  *)
(* 2, which lie on one date for p1 and on two dates, in p2's time zone,    *)
(* for p2.                                                                 *)
(***************************************************************************)
EXTENDS Scheduler

CONSTANTS p1, p2

MCDueAt == [p \in Profiles |-> {1, 2}]
MCDayOf == [p \in Profiles |-> [m \in Minutes |-> IF p = p2 /\ m >= 2 THEN 1 ELSE 0]]
=============================================================================
