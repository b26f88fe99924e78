---------------------------- MODULE MCBoardRuns ----------------------------
(* An instance of BoardRuns for TLC: two users watch one company. *)
EXTENDS MCJobReviews, BoardRuns
=============================================================================
