---------------------------- MODULE MCScrapeRuns ----------------------------
(* Instances of ScrapeRuns for TLC. *)
EXTENDS ScrapeRuns

CONSTANTS ann, a1, acme, post

\* One user with one row watches one company, which has one posting now and then.
MCUserOf == [r \in Rows |-> ann]
MCInputs == [titles : {TRUE}, watch : SUBSET Companies] \cup [titles : {FALSE}, watch : {{acme}}]
MCBoardOf == [p \in Postings |-> acme]
=============================================================================
