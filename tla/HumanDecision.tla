---------------------------- MODULE HumanDecision ----------------------------
(***************************************************************************)
(* What the mail agent may rely on when it asks its user to decide, with   *)
(* no word of requests, polls or rows: a prompt is asked once, by one      *)
(* user, and answered at most once.  Given up, it may still be answered,   *)
(* by an answer that was under way; once the answer is done with, nothing  *)
(* answers it again.                                                       *)
(***************************************************************************)
CONSTANTS Prompts, Users, Reviews, None

VARIABLE prompt    \* who asked, how far it is, and the review chosen if any

Ask(h, u) ==
    /\ prompt[h].state = "unasked"
    /\ prompt' = [prompt EXCEPT ![h] = [asker |-> u, state |-> "asked", choice |-> None]]

Answer(h, c) ==
    /\ prompt[h].state \in {"asked", "given_up"}
    /\ prompt' = [prompt EXCEPT ![h] = [asker |-> @.asker, state |-> "answered", choice |-> c]]

\* The agent has taken the answer up.
Finish(h) ==
    /\ prompt[h].state = "answered"
    /\ prompt' = [prompt EXCEPT ![h].state = "done"]

\* Some prompts nobody answered are given up, together.
GiveUp(H) ==
    /\ \A h \in H : prompt[h].state = "asked"
    /\ prompt' = [h \in Prompts |-> IF h \in H THEN [prompt[h] EXCEPT !.state = "given_up"]
                                    ELSE prompt[h]]

\* The review chosen is deleted.
Forget(r) ==
    prompt' = [h \in Prompts |-> IF prompt[h].choice = r THEN [prompt[h] EXCEPT !.choice = None]
                                 ELSE prompt[h]]

Init == prompt = [h \in Prompts |-> [asker |-> None, state |-> "unasked", choice |-> None]]

Next ==
    \/ \E h \in Prompts :
        \/ \E u \in Users : Ask(h, u)
        \/ \E c \in Reviews \cup {None} : Answer(h, c)
        \/ Finish(h)
    \/ \E H \in SUBSET Prompts : GiveUp(H)
    \/ \E r \in Reviews : Forget(r)

Spec == Init /\ [][Next]_prompt
=============================================================================
