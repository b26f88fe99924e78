------------------------------- MODULE MCResume -------------------------------
(***************************************************************************)
(* Instances for TLC of ResumeBase and ResumeTailor, which share nothing:  *)
(* each is explored while the other is at its start.                       *)
(***************************************************************************)
EXTENDS ResumeBase, ResumeTailor, TLC

CONSTANTS r1, r2, u1, u2, o1, o2, w1, w2,
          a, aa, b, c, written, moved, other, t1, t2

\* u1 tells its own order by headings everybody uses, u2 by headings of its own.
MCOrderIn == [p \in Texts \X Texts |-> IF p[1] = u1 THEN o1
                                       ELSE IF p[2] = u2 THEN o2 ELSE None]

\* aa is a in capitals, b is much like a, and c is like nothing else.
MCNormOf == [x \in Bullets |-> IF x = aa THEN a ELSE x]
MCRatio == [p \in Bullets \X Bullets |-> IF p \in {<<a, b>>, <<b, a>>} THEN 1 ELSE 0]
MCAnswers == BoundedSeq(Bullets, 2) \cup {<<a, b, c>>, <<b, c, a>>, <<aa, c, a>>}
MCBases == {<<a, b, c>>, <<c, a>>, <<c>>}

\* Row ids, and threads, are interchangeable; ResumeTailor has none of them.
Symmetry == {p @@ q : p \in Permutations(Rows), q \in Permutations(Threads)}

resume == <<vars, tailorVars>>

BaseAtRest == Init /\ Held = {}
TailorAtRest == TailorInit /\ orig = <<c>>

ResumeInit == Init /\ TailorInit /\ (BaseAtRest \/ TailorAtRest)

ResumeNext ==
    \/ TailorAtRest /\ Next /\ UNCHANGED tailorVars
    \/ BaseAtRest /\ TailorNext /\ UNCHANGED vars

ResumeSpec == ResumeInit /\ [][ResumeNext]_resume
=============================================================================
