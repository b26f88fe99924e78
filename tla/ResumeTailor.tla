---------------------------- MODULE ResumeTailor ----------------------------
(***************************************************************************)
(* One job's tailored résumé, from the model's draft to what is printed:   *)
(*                                                                         *)
(*   services/tracker-api/app/resume_tailor.py      the alignment, the     *)
(*                                                  changes, the effective *)
(*                                                  résumé                 *)
(*   services/tracker-api/app/routers/generate.py   tailor, refine,        *)
(*                                                  decisions, section     *)
(*                                                  order                  *)
(*                                                                         *)
(* A résumé is the bullets of one entry here.  The entries of a section    *)
(* are aligned and rebuilt in the same way; their changes bear other ids.  *)
(* The model that writes may return any list.  The draft is one JSON       *)
(* column: a handler loads it and writes all of it back, a refine minutes  *)
(* later.                                                                  *)
(***************************************************************************)
EXTENDS Naturals, Sequences, FiniteSets, SequencesExt

CONSTANTS
    Bullets,
    NormOf,      \* _norm_text: texts that differ in case or spaces only
    Ratio,       \* how alike two texts are; 0 is below FUZZY_THRESHOLD
    Bases,       \* résumés a user may begin with
    Answers,     \* bound: lists the model may return
    SectionOrders, \* orders of the sections
    Written,     \* the order of the résumé as the user wrote it
    Requests,    \* requests and runs in progress
    Unset

ASSUME TextAssumption ==
    NormOf \in [Bullets -> Bullets] /\ Ratio \in [Bullets \X Bullets -> Nat]
ASSUME BaseAssumption == Bases \cup Answers \subseteq Seq(Bullets)
ASSUME SectionAssumption == Written \in SectionOrders /\ Unset \notin SectionOrders

VARIABLES
    orig,     \* the résumé, as it was parsed
    tailored, \* resume_tailor of the review: the tailored text and the user's decisions
    request   \* what each request or run is in the middle of

tailorVars == <<orig, tailored, request>>

Waiting == [at |-> "idle"]
Decision == {"pending", "accepted", "rejected"}

-----------------------------------------------------------------------------
(* Which original item became which tailored one                            *)

\* Exact matches: the first copy of a text meets the first, the second the second.
Copy(s, i) == Cardinality({k \in 1..i : NormOf[s[k]] = NormOf[s[i]]})
Exact(o, t) ==
    {p \in (DOMAIN o) \X (DOMAIN t) :
        NormOf[o[p[1]]] = NormOf[t[p[2]]] /\ Copy(o, p[1]) = Copy(t, p[2])}

FreeOf(o, pairs) == {i \in DOMAIN o : \A p \in pairs : p[1] # i}
FreeTo(t, pairs) == {j \in DOMAIN t : \A p \in pairs : p[2] # j}

Alike(o, t, p) == Ratio[<<NormOf[o[p[1]]], NormOf[t[p[2]]]>>]
Apart(p) == IF p[1] < p[2] THEN p[2] - p[1] ELSE p[1] - p[2]

\* The most alike first, then the least displaced.
Before(o, t, p, q) ==
    LET alike == Alike(o, t, p)
        apart == Apart(p) IN
    \/ alike > Alike(o, t, q)
    \/ alike = Alike(o, t, q) /\ apart < Apart(q)
    \/ alike = Alike(o, t, q) /\ apart = Apart(q) /\ p[1] < q[1]
    \/ alike = Alike(o, t, q) /\ apart = Apart(q) /\ p[1] = q[1] /\ p[2] < q[2]

\* Of what is left, the alike ones, greedily: what is taken when n were looked at
Likely(o, t, pairs) ==
    {p \in FreeOf(o, pairs) \X FreeTo(t, pairs) : Alike(o, t, p) > 0}
Turn(o, t, S, p) == Cardinality({q \in S : Before(o, t, q, p)}) + 1
Taken(o, t, S) ==
    LET taken[n \in Nat] ==
          IF n = 0 THEN {}
          ELSE LET so == taken[n - 1] IN
               so \cup {p \in S : /\ Turn(o, t, S, p) = n
                                  /\ \A q \in so : q[1] # p[1] /\ q[2] # p[2]}
    IN  taken[Cardinality(S)]
Fuzzy(o, t, pairs) == pairs \cup Taken(o, t, Likely(o, t, pairs))

\* Of what is left now, the first with the first.
Rank(S, i) == Cardinality({k \in S : k <= i})
Nth(S, k) == CHOOSE i \in S : Rank(S, i) = k
Positional(o, t, pairs) ==
    LET from == FreeOf(o, pairs)
        to == FreeTo(t, pairs)
    IN  pairs \cup {p \in from \X to : Rank(from, p[1]) = Rank(to, p[2])}

\* _align_list
Pairs(o, t) == Positional(o, t, Fuzzy(o, t, Exact(o, t)))

\* is_reorder
Moved(pairs) == \E p, q \in pairs : p[1] < q[1] /\ p[2] > q[2]

-----------------------------------------------------------------------------
(* The changes, by their ids: an id names the original item, and not what   *)
(* became of it; what is new is named by its place and its text.            *)

OrderId == <<"order">>
AddedId(t, j) == <<"added", j, NormOf[t[j]]>>

\* Mutant of ItemId: the place in the tailored list.
ItemIdByPlace(i, pairs) ==
    LET j == {p[2] : p \in {q \in pairs : q[1] = i}} IN <<"item", j>>

ItemId(i, pairs) == <<"item", i>>

Modified(o, t, pairs) == {p \in pairs : o[p[1]] # t[p[2]]}

\* diff_structured: removed items and modified ones, new ones, one for the moves.
Ids(o, t) ==
    LET pairs == Pairs(o, t) IN
    {ItemId(i, pairs) : i \in FreeOf(o, pairs) \cup {p[1] : p \in Modified(o, t, pairs)}}
    \cup {AddedId(t, j) : j \in FreeTo(t, pairs)}
    \cup (IF Moved(pairs) THEN {OrderId} ELSE {})

-----------------------------------------------------------------------------
(* effective_resume: what is not rejected stands.                           *)

Out(dec, id) == id \in DOMAIN dec /\ dec[id] = "rejected"

\* The values of f as a list, the lowest index first
Listed(f) == [k \in 1..Cardinality(DOMAIN f) |-> f[Nth(DOMAIN f, k)]]

\* The original items that are still there, and what they say
Alive(o, pairs, dec) ==
    {i \in DOMAIN o : i \in FreeOf(o, pairs) => Out(dec, ItemId(i, pairs))}
Says(o, t, pairs, dec, i) ==
    IF Out(dec, ItemId(i, pairs)) \/ i \in FreeOf(o, pairs) THEN o[i]
    ELSE t[(CHOOSE p \in pairs : p[1] = i)[2]]

New(t, pairs, dec) == {j \in FreeTo(t, pairs) : ~Out(dec, AddedId(t, j))}

\* In the tailored order: the items that order has a place for
Slot(o, t, pairs, dec, j) ==
    IF j \in FreeTo(t, pairs) THEN t[j]
    ELSE Says(o, t, pairs, dec, (CHOOSE p \in pairs : p[2] = j)[1])
InNewOrder(o, t, pairs, dec) ==
    Listed([j \in {k \in DOMAIN t : k \in FreeTo(t, pairs) => k \in New(t, pairs, dec)} |->
              Slot(o, t, pairs, dec, j)])

Items(o, t, pairs, dec) == Listed([i \in Alive(o, pairs, dec) |-> Says(o, t, pairs, dec, i)])

\* Mutant of InOldOrder: what is new goes to the end.
InOldOrderAppending(o, t, pairs, dec) ==
    Items(o, t, pairs, dec) \o Listed([j \in New(t, pairs, dec) |-> t[j]])

\* In the original order, what is new inserted at its place
InOldOrder(o, t, pairs, dec) ==
    LET out[j \in Nat] ==
          IF j = 0 THEN Items(o, t, pairs, dec)
          ELSE LET so == out[j - 1] IN
               IF j \in New(t, pairs, dec)
               THEN InsertAt(so, IF j <= Len(so) THEN j ELSE Len(so) + 1, t[j])
               ELSE so
    IN  out[Len(t)]

\* _apply_list, rebuild
InOrder(pairs, dec) == Moved(pairs) /\ ~Out(dec, OrderId)
Effective(o, t, dec) ==
    LET pairs == Pairs(o, t) IN
    IF InOrder(pairs, dec) THEN InNewOrder(o, t, pairs, dec) ELSE InOldOrder(o, t, pairs, dec)

EffectiveOrder(d) == IF d.order # Written /\ d.move = "rejected" THEN Written ELSE d.order

-----------------------------------------------------------------------------
\* move is the decision on the one change of the section order, if there is one.
TailorInit ==
    /\ orig \in Bases
    /\ tailored = Unset
    /\ request = [w \in Requests |-> Waiting]

Start(w, work) ==
    /\ request[w] = Waiting
    /\ request' = [request EXCEPT ![w] = work]
    /\ UNCHANGED <<orig, tailored>>
Write(w, value) ==
    /\ request' = [request EXCEPT ![w] = Waiting]
    /\ tailored' = value
    /\ UNCHANGED orig

\* tailor_resume_endpoint: one run at a time (GenerationJobs).
RunBegin(w) ==
    /\ \A v \in Requests : request[v].at # "tailor"
    /\ Start(w, [at |-> "tailor"])

\* run_tailor: the sections stay where they are.
RunEnd(w, t) ==
    /\ request[w].at = "tailor"
    /\ Write(w, [tail |-> t, dec |-> [id \in Ids(orig, t) |-> "pending"],
                 order |-> Written, move |-> "pending"])

\* The run failed; what there was stays.
RunFails(w) ==
    /\ request[w].at = "tailor"
    /\ Write(w, tailored)

RefineBegin(w) ==
    /\ tailored # Unset
    /\ Start(w, [at |-> "refine", seen |-> tailored])

\* The decision on the sections is carried if they stay as they were in the draft.
MoveCarried(seen, order) ==
    IF order = Written \/ order # seen.order THEN "pending" ELSE seen.move

\* refine_tailored_resume: decisions are carried by id.  The model was told what was
\* rejected, and may return anything; without an order it returns the one it was given.
RefineEnd(w, t, answer) ==
    LET seen == request[w].seen
        order == IF answer = Unset THEN EffectiveOrder(seen) ELSE answer IN
    /\ request[w].at = "refine"
    /\ Write(w, [tail |-> t,
                 dec |-> [id \in Ids(orig, t) |->
                            IF id \in DOMAIN seen.dec THEN seen.dec[id] ELSE "pending"],
                 order |-> order, move |-> MoveCarried(seen, order)])

\* The model or its key failed.
RefineFails(w) ==
    /\ request[w].at = "refine"
    /\ Write(w, tailored)

\* set_change_decisions
DecideBegin(w, id, d) ==
    /\ tailored # Unset /\ id \in DOMAIN tailored.dec
    /\ Start(w, [at |-> "decide", seen |-> tailored, id |-> id, to |-> d])
DecideEnd(w) ==
    /\ request[w].at = "decide"
    /\ Write(w, [request[w].seen EXCEPT !.dec[request[w].id] = request[w].to])

DecideMoveBegin(w, d) ==
    /\ tailored # Unset /\ tailored.order # Written
    /\ Start(w, [at |-> "decide move", seen |-> tailored, to |-> d])
DecideMoveEnd(w) ==
    /\ request[w].at = "decide move"
    /\ Write(w, [request[w].seen EXCEPT !.move = request[w].to])

\* set_section_order: the user's own move is accepted.
MoveBegin(w, order) ==
    /\ tailored # Unset
    /\ Start(w, [at |-> "move", seen |-> tailored, to |-> order])
MoveEnd(w) ==
    LET to == request[w].to IN
    /\ request[w].at = "move"
    /\ Write(w, [request[w].seen EXCEPT !.order = to,
                                       !.move = IF to = Written THEN "pending" ELSE "accepted"])

TailorNext == \E w \in Requests :
    \/ RunBegin(w) \/ RunFails(w) \/ \E t \in Answers : RunEnd(w, t)
    \/ RefineBegin(w) \/ RefineFails(w)
    \/ \E t \in Answers, answer \in SectionOrders \cup {Unset} : RefineEnd(w, t, answer)
    \/ tailored # Unset /\ \E id \in DOMAIN tailored.dec, d \in Decision : DecideBegin(w, id, d)
    \/ \E d \in Decision : DecideMoveBegin(w, d)
    \/ \E order \in SectionOrders : MoveBegin(w, order)
    \/ DecideEnd(w) \/ DecideMoveEnd(w) \/ MoveEnd(w)

TailorSpec == TailorInit /\ [][TailorNext]_tailorVars

-----------------------------------------------------------------------------
Times(s, text) == Cardinality({k \in DOMAIN s : s[k] = text})

\* How often a text is there when each item and each addition is what its own decision
\* alone makes of it
Wanted(o, t, pairs, dec, text) ==
    Cardinality({i \in Alive(o, pairs, dec) : Says(o, t, pairs, dec, i) = text})
    + Cardinality({j \in New(t, pairs, dec) : t[j] = text})

AsDecided(o, t, pairs, dec, printed) == \A text \in Bullets :
    Times(printed, text) = Wanted(o, t, pairs, dec, text)

\* What is printed is the tailored résumé when nothing was rejected and the user's own
\* when everything was; in between, unless the items move, each is what its own decision
\* says, once (resume_tailor.py:995-1000).
Approved ==
    tailored # Unset =>
        LET t == tailored.tail
            dec == tailored.dec
            pairs == Pairs(orig, t)
            printed == Effective(orig, t, dec)
        IN  /\ (\A id \in DOMAIN dec : dec[id] # "rejected") => printed = t
            /\ (\A id \in DOMAIN dec : dec[id] = "rejected") => printed = orig
            /\ ~InOrder(pairs, dec) => AsDecided(orig, t, pairs, dec, printed)

\* Every rejected change is reverted, whatever else is kept (resume_tailor.py:995-996).
RejectedReverts ==
    tailored # Unset =>
        AsDecided(orig, tailored.tail, Pairs(orig, tailored.tail), tailored.dec,
                  Effective(orig, tailored.tail, tailored.dec))

\* A refine leaves alone what the user rejected, for as long as the answer changes it at
\* all, and a section move that was just asked for is not taken for one that was rejected
\* (generate.py:776-778, 828-834).
Refined == \E w \in Requests :
    request[w].at = "refine" /\ request'[w] = Waiting /\ tailored' # tailored
Kept(d, i) == LET pairs == Pairs(orig, d.tail) IN
    Out(d.dec, ItemId(i, pairs)) \/ \E p \in pairs : p[1] = i /\ d.tail[p[2]] = orig[i]
RejectedItem(d, i) == Out(d.dec, ItemId(i, Pairs(orig, d.tail)))
Pinned == [][Refined =>
    /\ \A i \in DOMAIN orig : RejectedItem(tailored, i) => Kept(tailored', i)
    /\ tailored'.order # tailored.order =>
         EffectiveOrder(tailored') = tailored'.order]_tailorVars
=============================================================================
