---------------------------- MODULE MCJobReviews ----------------------------
(* Instances of JobReviews for TLC. *)
EXTENDS JobReviews, TLC

CONSTANTS u1, u2, j1, j2, ad1, ad2, req, adzuna, jsearch, engineer

\* Two ads of one role at different aggregators, and a requisition on the company's
\* own board.
MCSourceOf == [l \in Listings |-> CASE l = ad1 -> adzuna [] l = ad2 -> jsearch
                                     [] OTHER -> "board"]
MCRoleOf == [l \in Listings |-> engineer]

\* The board gives an old date, an aggregator a recent one.
MCDatings == [l \in Listings |-> IF l = req THEN {"old"} ELSE {"recent"}]

\* Row ids are interchangeable, and so are users.
Symmetry == {p @@ q : p \in Permutations(Jobs), q \in Permutations(Users)}
=============================================================================
