---------------------------- MODULE MCKeyVerdicts ----------------------------
(* Instances of KeyVerdicts for TLC. *)
EXTENDS KeyVerdicts, TLC

CONSTANTS opus, haiku, t1, t2, c1

\* Models, and deliveries, are interchangeable.
Symmetry == {p @@ q : p \in Permutations(Models), q \in Permutations(Tasks)}
=============================================================================
