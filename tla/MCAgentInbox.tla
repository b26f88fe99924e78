---------------------------- MODULE MCAgentInbox ----------------------------
(* Instances of AgentInbox for TLC. *)
EXTENDS AgentInbox, TLC

CONSTANTS ann, bob, r1, r2, b1, m1, m2, h1, t1, t2

\* Two reviews and the mail are Ann's; one review is Bob's.
MCOwnerOf == [r \in Reviews |-> IF r = b1 THEN bob ELSE ann]
MCMailboxOf == [m \in Emails |-> ann]

Symmetry == Permutations(Threads)
=============================================================================
