------------------------------- MODULE MCEngine -------------------------------
(***************************************************************************)
(* Engine with two resumes.  The keyword score of posting p1 is at the     *)
(* threshold for the first of them; all others are below it, and p3 is of  *)
(* a watchlist company.  A score of the model is above the threshold.      *)
(***************************************************************************)
EXTENDS Engine

CONSTANTS s1, s2, r1, r2, p1, p2, p3

MCSources == <<s1, s2>>
MCResumes == <<r1, r2>>
MCKeyword == [r \in {r1, r2} |-> [p \in Postings |-> IF r = r1 /\ p = p1 THEN 50 ELSE 20]]
=============================================================================
