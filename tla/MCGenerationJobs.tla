-------------------------- MODULE MCGenerationJobs --------------------------
(* Instances of GenerationJobs for TLC. *)
EXTENDS GenerationJobs, TLC

CONSTANTS u1, v1, v2, r1, r2, r3, p1, research, tailor

\* Two reviews of one user: a second request attaches or is refused.
MCOwner == [v \in {v1, v2} |-> u1]
MCSymmetry == Permutations({r1, r2, r3}) \cup Permutations({v1, v2})
=============================================================================
