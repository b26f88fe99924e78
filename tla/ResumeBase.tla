------------------------------ MODULE ResumeBase ------------------------------
(***************************************************************************)
(* The résumé a user wrote, its parse, and the copy a job was tailored to: *)
(*                                                                         *)
(*   services/tracker-api/app/routers/profile.py    save, ingest, activate *)
(*   services/tracker-api/app/routers/generate.py   _fresh_structured,     *)
(*                                                  run_tailor, the page   *)
(*                                                  of a tailored résumé   *)
(*   services/tracker-api/app/resume_tailor.py      parse, section order   *)
(*                                                                         *)
(* One user and one job.  A parse takes the model a minute.  A handler     *)
(* writes only the columns it gave another value than it had loaded: its   *)
(* picture of the row may be old.  A structure is named by the text it was *)
(* parsed from, and carries the order its sections were read in, which     *)
(* older versions left out.                                                *)
(***************************************************************************)
EXTENDS Naturals

CONSTANTS
    Rows,        \* ids of Profile rows
    Texts,       \* résumés the user may write
    OrderIn,     \* detect_section_order: what a text tells of a structure's sections
    Threads,     \* requests and runs in progress
    MaxSaves,    \* bound: profiles the user sends
    None

Orders == {OrderIn[p] : p \in Texts \X Texts} \ {None}

Structure == [of : Texts, order : Orders \cup {None}]
Profile == [text : Texts \cup {None}, base : Structure \cup {None}, stale : BOOLEAN,
            active : BOOLEAN]

ASSUME OrderAssumption == DOMAIN OrderIn = Texts \X Texts
ASSUME NoneAssumption == None \notin Rows \cup Texts \cup Structure \cup Profile
ASSUME BoundAssumption == MaxSaves \in Nat

VARIABLES
    row,      \* the Profile rows
    newer,    \* <<q, r>>: the updated_at of q is later than that of r
    draft,    \* the structure in resume_tailor of the job, when there is one
    thread,   \* what each request or run is in the middle of
    saves,
    blind     \* history: the rows written by someone who had not seen the last write

vars == <<row, newer, draft, thread, saves, blind>>

Idle == [at |-> "idle"]

Loaded == {p \in Profile : p.text # None}
Work == {Idle}
    \cup [at : {"create"}, row : {None}, to : Texts \cup {None}]
    \cup [at : {"save"}, row : Rows, seen : Profile, to : Texts \cup {None}]
    \cup [at : {"ingest", "tailor"}, row : Rows, seen : Loaded]
    \cup [at : {"write"}, row : Rows, original : Structure]
    \cup [at : {"view"}, row : Rows \cup {None}, original : Structure,
          seen : Profile \cup {None}]
    \cup [at : {"view base"}, row : Rows, seen : Profile \cup {None}]

TypeOK ==
    /\ row \in [Rows -> Profile \cup {None}]
    /\ newer \subseteq Rows \X Rows
    /\ draft \in Structure \cup {None}
    /\ thread \in [Threads -> Work]
    /\ saves \in 0..MaxSaves
    /\ blind \subseteq Rows

-----------------------------------------------------------------------------
\* parse_resume_text
Parse(t) == [of |-> t, order |-> OrderIn[<<t, t>>]]

\* The order a structure without one is given from a text, if it tells any.
Ordered(s, t) ==
    IF s.order = None /\ t # None THEN [of |-> s.of, order |-> OrderIn[<<t, s.of>>]] ELSE s

Held == {r \in Rows : row[r] # None}
Active == {r \in Held : row[r].active}

\* _active_profile, _get_profile: the newest of the active ones, or None.
IsCurrent(r) ==
    IF r = None THEN Active = {} ELSE r \in Active /\ \A q \in Active : <<q, r>> \notin newer

\* An id no row and no thread has.
Unused(r) ==
    row[r] = None /\ \A w \in Threads : thread[w] # Idle => thread[w].row # r

Without(r) == {p \in newer : r \notin {p[1], p[2]}}
Touched(r) == Without(r) \cup {<<r, q>> : q \in Held \ {r}}

NewProfile(t) == [text |-> t, base |-> None, stale |-> TRUE, active |-> TRUE]

\* A user without a profile, or with one that was parsed by an older version.
Init ==
    /\ newer = {} /\ saves = 0 /\ blind = {}
    /\ thread = [w \in Threads |-> Idle]
    /\ \/ row = [r \in Rows |-> None] /\ draft = None
       \/ \E t \in Texts, r \in Rows :
            LET base == [of |-> t, order |-> None] IN
            /\ row = [q \in Rows |->
                        IF q = r THEN [text |-> t, base |-> base, stale |-> FALSE,
                                       active |-> TRUE]
                        ELSE None]
            /\ draft \in {None, base}

-----------------------------------------------------------------------------
Become(w, work) == thread' = [thread EXCEPT ![w] = work]

Load(w, work) ==
    /\ thread[w] = Idle
    /\ Become(w, work)
    /\ UNCHANGED <<row, newer, draft, blind>>

\* What decides here of a row
Same(p, q) == p.text = q.text /\ p.base = q.base /\ p.stale = q.stale

\* The UPDATE of row r by w: the columns it changed, and updated_at.  A parse
\* from the row as it is makes up for what was written blindly.
Update(w, r, new, parsed) ==
    /\ row[r] # None
    /\ row' = [row EXCEPT ![r] = new]
    /\ newer' \in {Touched(r)} \cup (IF new = row[r] THEN {newer} ELSE {})
    /\ blind' = IF ~Same(row[r], thread[w].seen) THEN blind \cup {r}
                ELSE IF parsed THEN blind \ {r} ELSE blind

\* The row went meanwhile (404, StaleDataError), there is nothing to write, or the
\* model or its key failed.
Nothing(w) ==
    /\ thread[w] # Idle
    /\ Become(w, Idle)
    /\ UNCHANGED <<row, newer, draft, saves, blind>>

Saving == saves < MaxSaves /\ saves' = saves + 1

\* upsert_profile without a profile: two of them make two.
CreateBegin(w, t) ==
    /\ IsCurrent(None) /\ Saving
    /\ Load(w, [at |-> "create", row |-> None, to |-> t])

CreateEnd(w, r) ==
    /\ thread[w].at = "create"
    /\ Unused(r)
    /\ row' = [row EXCEPT ![r] = NewProfile(thread[w].to)]
    /\ newer' = Touched(r)
    /\ Become(w, Idle)
    /\ UNCHANGED <<draft, saves, blind>>

\* upsert_profile with one, and update_profile of any: a payload that has the text as
\* it was, or leaves it out, writes other columns.
SaveBegin(w, r, t) ==
    /\ row[r] # None /\ Saving
    /\ Load(w, [at |-> "save", row |-> r, seen |-> row[r], to |-> t])

\* Mutant of Saved: the parse is taken to be of the new text.
SavedFresh(old, seen, t) ==
    [text |-> IF t = seen.text THEN old.text ELSE t, base |-> old.base,
     stale |-> old.stale, active |-> old.active]

\* _mark_resume_stale_if_changed: a flag that was loaded raised is not written.
Saved(old, seen, t) ==
    [text |-> IF t = seen.text THEN old.text ELSE t, base |-> old.base,
     stale |-> IF t = seen.text \/ seen.stale THEN old.stale ELSE TRUE,
     active |-> old.active]

SaveEnd(w) ==
    LET r == thread[w].row IN
    /\ thread[w].at = "save"
    /\ Update(w, r, Saved(row[r], thread[w].seen, thread[w].to), FALSE)
    /\ Become(w, Idle)
    /\ UNCHANGED <<draft, saves>>

\* activate_profile
Activate(r) ==
    /\ row[r] # None
    /\ row' = [q \in Rows |-> IF row[q] = None THEN None ELSE [row[q] EXCEPT !.active = q = r]]
    /\ newer' = Touched(r)
    /\ UNCHANGED <<draft, thread, saves, blind>>

\* delete_profile
Delete(r) ==
    /\ row[r] # None
    /\ row' = [row EXCEPT ![r] = None]
    /\ newer' = Without(r)
    /\ blind' = blind \ {r}
    /\ UNCHANGED <<draft, thread, saves>>

-----------------------------------------------------------------------------
(* The parse                                                                *)

\* A profile without text is refused.
Loading(w, what) ==
    \E r \in Active :
        /\ IsCurrent(r) /\ row[r].text # None
        /\ Load(w, [at |-> what, row |-> r, seen |-> row[r]])
        /\ UNCHANGED saves

\* A flag loaded lowered is written too if the row was forgotten in between: the
\* successful call cleared an error of the key, and that committed.
Parsed(old, seen, forgotten) ==
    [text |-> old.text, base |-> Parse(seen.text),
     stale |-> IF seen.stale \/ forgotten THEN FALSE ELSE old.stale, active |-> old.active]

\* ingest_resume
IngestBegin(w) == Loading(w, "ingest")

IngestEnd(w, forgotten) ==
    LET r == thread[w].row IN
    /\ thread[w].at = "ingest"
    /\ Update(w, r, Parsed(row[r], thread[w].seen, forgotten), TRUE)
    /\ Become(w, Idle)
    /\ UNCHANGED <<draft, saves>>

\* run_tailor, one at a time (GenerationJobs)
TailorBegin(w) ==
    /\ \A o \in Threads : thread[o].at \notin {"tailor", "write"}
    /\ Loading(w, "tailor")

Writing(w, s) == Become(w, [at |-> "write", row |-> thread[w].row, original |-> s])

WithBase(old, s) ==
    [text |-> old.text, base |-> s, stale |-> old.stale, active |-> old.active]

\* _fresh_structured: the structure there is, given its order if it has none, or a parse.
Reuse(w) ==
    LET r == thread[w].row
        seen == thread[w].seen
        s == Ordered(seen.base, seen.text) IN
    /\ thread[w].at = "tailor"
    /\ seen.base # None /\ ~seen.stale
    /\ IF s = seen.base THEN UNCHANGED <<row, newer, blind>>
        ELSE Update(w, r, WithBase(row[r], s), FALSE)
    /\ Writing(w, s)
    /\ UNCHANGED <<draft, saves>>

Reparse(w) ==
    LET r == thread[w].row
        seen == thread[w].seen IN
    /\ thread[w].at = "tailor"
    /\ seen.base = None \/ seen.stale
    /\ Update(w, r, Parsed(row[r], seen, TRUE), TRUE)
    /\ Writing(w, Parse(seen.text))
    /\ UNCHANGED <<draft, saves>>

\* build_tailor_state keeps what was tailored (the rest of it is ResumeTailor).
TailorEnd(w) ==
    /\ thread[w].at = "write"
    /\ draft' = thread[w].original
    /\ Become(w, Idle)
    /\ UNCHANGED <<row, newer, saves, blind>>

-----------------------------------------------------------------------------
(* get_tailored_resume                                                      *)

ViewBegin(w) ==
    /\ draft # None
    /\ \E r \in Rows \cup {None} :
        /\ IsCurrent(r)
        /\ Load(w, [at |-> "view", row |-> r, original |-> draft,
                    seen |-> IF r = None THEN None ELSE row[r]])
    /\ UNCHANGED saves

\* The draft is given an order, in a transaction of its own, after which the profile is
\* read again.
ViewDraft(w) ==
    LET v == thread[w]
        s == Ordered(v.original, IF v.seen = None THEN None ELSE v.seen.text) IN
    /\ v.at = "view"
    /\ draft' = IF s = v.original THEN draft ELSE s
    /\ Become(w, IF v.row = None THEN Idle
                 ELSE [at |-> "view base", row |-> v.row,
                       seen |-> IF s = v.original THEN v.seen ELSE row[v.row]])
    /\ UNCHANGED <<row, newer, saves, blind>>

\* So is the structure of the profile.
ViewBase(w) ==
    LET r == thread[w].row
        seen == thread[w].seen IN
    /\ thread[w].at = "view base"
    /\ seen # None /\ seen.base # None
    /\ LET s == Ordered(seen.base, seen.text) IN
        /\ s # seen.base
        /\ Update(w, r, WithBase(row[r], s), FALSE)
    /\ Become(w, Idle)
    /\ UNCHANGED <<draft, saves>>

\* What the page says of the draft, of a job whose user has profile r
BaseChanged(r) == row[r].base # None /\ row[r].base # draft

Save(w) ==
    \/ \E t \in Texts \cup {None} : CreateBegin(w, t) \/ \E r \in Rows : SaveBegin(w, r, t)
    \/ SaveEnd(w)
    \/ \E r \in Rows : CreateEnd(w, r)

Run(w) ==
    \/ IngestBegin(w) \/ \E forgotten \in BOOLEAN : IngestEnd(w, forgotten)
    \/ TailorBegin(w) \/ Reuse(w) \/ Reparse(w) \/ TailorEnd(w)
    \/ ViewBegin(w) \/ ViewDraft(w) \/ ViewBase(w)
    \/ Nothing(w)

Next ==
    \/ \E w \in Threads : Save(w) \/ Run(w)
    \/ \E r \in Rows : Activate(r) \/ Delete(r)

Spec == Init /\ [][Next]_vars

-----------------------------------------------------------------------------
\* The flag tells (models.py:550-552): a parse that is not flagged is of this text.
Told(r) ==
    row[r] # None /\ ~row[r].stale => row[r].base # None /\ row[r].base.of = row[r].text

\* It does unless somebody wrote to the row from an old picture of it; and a draft of
\* another text than the user's is then told apart, by the flag or on its page
\* (generate.py:653).
OfThisText ==
    /\ \A r \in Rows \ blind : Told(r)
    /\ \A r \in Active \ blind :
        draft # None /\ IsCurrent(r) =>
            draft.of = row[r].text \/ row[r].stale \/ BaseChanged(r)

\* Without the exception
AlwaysTold == \A r \in Rows : Told(r)
=============================================================================
