----------------------------- MODULE MCScrapers -----------------------------
(***************************************************************************)
(* Scrapers with two runs, both of which call wellfound.  One of the three *)
(* postings names no place, and two are listed without a URL.              *)
(***************************************************************************)
EXTENDS Scrapers

CONSTANTS p1, p2, p3

MCPlan == <<<<"jobspy", "wellfound">>, <<"hackernews", "yc", "wellfound">>>>
MCUrl  == [p \in Postings |-> IF p = p3 THEN "URL" ELSE ""]
=============================================================================
