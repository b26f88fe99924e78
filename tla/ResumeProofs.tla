----------------------------- MODULE ResumeProofs -----------------------------
(***************************************************************************)
(* Proofs about a résumé and the copies tailored to a job, one module at a *)
(* time.  ResumeBase, for every set of rows, texts and threads: the rows   *)
(* nobody wrote to blindly keep a flag that tells (Flags); that a draft of *)
(* another text is told apart follows from it.  ResumeTailor, for every    *)
(* list of bullets and every answer: what a refine leaves alone, which     *)
(* item became which, and that what is printed is what was approved.       *)
(***************************************************************************)
EXTENDS ResumeBase, ResumeTailor, FiniteSetTheorems, WellFoundedInduction, TLAPS

Flags == \A r \in Rows \ blind : Told(r)

IInv == TypeOK /\ Flags

\* An order that was read is an order, or none.
LEMMA OrderRead ==
    \A t, u \in Texts : OrderIn[<<t, u>>] \in Orders \cup {None}
  BY DEF Orders

\* A parse is a structure of its text.
LEMMA ParseOf ==
    ASSUME NEW t \in Texts
    PROVE  Parse(t) \in Structure /\ Parse(t).of = t
  BY OrderRead DEF Parse, Structure

\* A structure given an order is of the text it was of.
LEMMA OrderedOf ==
    ASSUME NEW s \in Structure, NEW t \in Texts \cup {None}
    PROVE  Ordered(s, t) \in Structure /\ Ordered(s, t).of = s.of
  BY OrderRead DEF Ordered, Structure

\* Which thread holds what, by the place it is at.
LEMMA AtWork ==
    ASSUME TypeOK, NEW w \in Threads
    PROVE  /\ thread[w].at = "create" => thread[w].to \in Texts \cup {None}
           /\ thread[w].at = "save" =>
                /\ thread[w].row \in Rows /\ thread[w].seen \in Profile
                /\ thread[w].to \in Texts \cup {None}
           /\ thread[w].at \in {"ingest", "tailor"} =>
                /\ thread[w].row \in Rows /\ thread[w].seen \in Profile
                /\ thread[w].seen.text \in Texts
           /\ thread[w].at = "write" => thread[w].original \in Structure
           /\ thread[w].at = "view" =>
                /\ thread[w].row \in Rows \cup {None} /\ thread[w].original \in Structure
                /\ thread[w].seen \in Profile \cup {None}
           /\ thread[w].at = "view base" =>
                thread[w].row \in Rows /\ thread[w].seen \in Profile \cup {None}
<1> DEFINE v == thread[w]
<1>1. v \in Work
  BY DEF TypeOK
<1>2. \A p \in Loaded : p \in Profile /\ p.text \in Texts
  BY DEF Loaded, Profile
<1>3. CASE v = Idle
  BY <1>3 DEF Idle
<1>4. CASE v \in [at : {"create"}, row : {None}, to : Texts \cup {None}]
  BY <1>4
<1>5. CASE v \in [at : {"save"}, row : Rows, seen : Profile, to : Texts \cup {None}]
  BY <1>5
<1>6. CASE v \in [at : {"ingest", "tailor"}, row : Rows, seen : Loaded]
  <2>1. v.at \in {"ingest", "tailor"} /\ v.row \in Rows /\ v.seen \in Loaded
    BY <1>6
  <2> QED
    BY <1>2, <2>1
<1>7. CASE v \in [at : {"write"}, row : Rows, original : Structure]
  BY <1>7
<1>8. CASE v \in [at : {"view"}, row : Rows \cup {None}, original : Structure,
                  seen : Profile \cup {None}]
  BY <1>8
<1>9. CASE v \in [at : {"view base"}, row : Rows, seen : Profile \cup {None}]
  BY <1>9
<1> QED
  BY <1>1, <1>3, <1>4, <1>5, <1>6, <1>7, <1>8, <1>9 DEF Work

\* A thread that goes on holds what its place says.
LEMMA WorkGoesOn ==
    ASSUME TypeOK, NEW w \in Threads, NEW work \in Work, Become(w, work)
    PROVE  thread' \in [Threads -> Work]
  BY DEF TypeOK, Become

\* A row written by an UPDATE keeps a flag that tells, if what is written tells: where
\* the writer had seen the last write, and parsed or changed a row that told.
LEMMA UpdateTells ==
    ASSUME IInv, NEW w \in Threads, NEW r \in Rows, NEW new \in Profile, NEW parsed \in BOOLEAN,
           Update(w, r, new, parsed),
           Same(row[r], thread[w].seen) /\ (parsed \/ Told(r)) =>
               (~new.stale => new.base # None /\ new.base.of = new.text)
    PROVE  /\ row' \in [Rows -> Profile \cup {None}]
           /\ newer' \subseteq Rows \X Rows
           /\ blind' \subseteq Rows
           /\ Flags'
<1>1. row' = [row EXCEPT ![r] = new] /\ row \in [Rows -> Profile \cup {None}]
  BY DEF Update, IInv, TypeOK
<1>2. blind \subseteq Rows /\ blind' \subseteq Rows
  BY DEF Update, IInv, TypeOK
<1>3. newer' \subseteq Rows \X Rows
  <2>1. newer \subseteq Rows \X Rows
    BY DEF IInv, TypeOK
  <2>2. Touched(r) \subseteq Rows \X Rows
    BY <2>1 DEF Touched, Without, Held
  <2> QED
    BY <2>1, <2>2 DEF Update
<1>4. ASSUME NEW q \in Rows, q \notin blind'
      PROVE  Told(q)'
  <2>1. CASE q # r
    <3>1. q \notin blind /\ row'[q] = row[q]
      BY <1>1, <1>4, <2>1 DEF Update
    <3> QED
      BY <3>1 DEF Told, IInv, Flags
  <2>2. CASE q = r
    <3>1. Same(row[r], thread[w].seen) /\ (parsed \/ r \notin blind)
      BY <1>4, <2>2 DEF Update
    <3>2. parsed \/ Told(r)
      BY <3>1 DEF IInv, Flags
    <3>3. row'[r] = new
      BY <1>1
    <3> QED
      BY <2>2, <3>1, <3>2, <3>3 DEF Told
  <2> QED
    BY <2>1, <2>2
<1> QED
  BY <1>1, <1>2, <1>3, <1>4 DEF Flags

-----------------------------------------------------------------------------
\* What each step that keeps the rows leaves: the flags stand.
LEMMA FlagsStand ==
    ASSUME Flags, UNCHANGED <<row, blind>>
    PROVE  Flags'
  BY DEF Flags, Told

\* A user begins without a profile, or with one whose parse is of its text.
LEMMA InitIInv == Init => IInv
<1> SUFFICES ASSUME Init PROVE IInv
  OBVIOUS
<1>1. thread \in [Threads -> Work]
  BY DEF Init, Work
<1>2. newer \subseteq Rows \X Rows /\ saves \in 0..MaxSaves /\ blind = {}
  BY BoundAssumption DEF Init
<1>3. CASE row = [r \in Rows |-> None] /\ draft = None
  BY <1>1, <1>2, <1>3 DEF IInv, TypeOK, Flags, Told
<1>4. ASSUME NEW t \in Texts, NEW r \in Rows,
             row = [q \in Rows |->
                      IF q = r THEN [text |-> t, base |-> [of |-> t, order |-> None],
                                     stale |-> FALSE, active |-> TRUE]
                      ELSE None],
             draft \in {None, [of |-> t, order |-> None]}
      PROVE  IInv
  <2>1. [of |-> t, order |-> None] \in Structure
    BY DEF Structure
  <2>2. row \in [Rows -> Profile \cup {None}]
    BY <1>4, <2>1 DEF Profile
  <2>3. \A q \in Rows : Told(q)
    BY <1>4, <2>1, NoneAssumption DEF Told
  <2> QED
    BY <1>1, <1>2, <1>4, <2>1, <2>2, <2>3 DEF IInv, TypeOK, Flags
<1> QED
  BY <1>3, <1>4, Zenon DEF Init

\* What the user does to profiles: a save that changes the text lowers no flag.
LEMMA SaveKeeps ==
    ASSUME IInv, NEW w \in Threads, Save(w)
    PROVE  IInv'
<1> USE DEF IInv
<1>1. ASSUME NEW t \in Texts \cup {None}, CreateBegin(w, t)
      PROVE  IInv'
  <2>1. [at |-> "create", row |-> None, to |-> t] \in Work
    BY DEF Work
  <2>2. thread' \in [Threads -> Work]
    BY <1>1, <2>1, WorkGoesOn DEF CreateBegin, Load
  <2> QED
    BY <1>1, <2>2, FlagsStand, BoundAssumption DEF CreateBegin, Load, Saving, TypeOK
<1>2. ASSUME NEW t \in Texts \cup {None}, NEW r \in Rows, SaveBegin(w, r, t)
      PROVE  IInv'
  <2>1. row[r] \in Profile
    BY <1>2 DEF SaveBegin, TypeOK
  <2>2. [at |-> "save", row |-> r, seen |-> row[r], to |-> t] \in Work
    BY <2>1 DEF Work
  <2>3. thread' \in [Threads -> Work]
    BY <1>2, <2>2, WorkGoesOn DEF SaveBegin, Load
  <2> QED
    BY <1>2, <2>3, FlagsStand, BoundAssumption DEF SaveBegin, Load, Saving, TypeOK
<1>3. CASE SaveEnd(w)
  <2> DEFINE r == thread[w].row
             seen == thread[w].seen
             to == thread[w].to
             new == Saved(row[r], seen, to)
  <2>1. r \in Rows /\ seen \in Profile /\ to \in Texts \cup {None}
    BY <1>3, AtWork DEF SaveEnd
  <2>2. row[r] \in Profile
    BY <1>3, <2>1 DEF SaveEnd, Update, TypeOK
  <2>3. new \in Profile
    BY <2>1, <2>2 DEF Saved, Profile
  <2>4. Same(row[r], seen) /\ Told(r) =>
            (~new.stale => new.base # None /\ new.base.of = new.text)
    <3> HIDE DEF r, seen, to
    <3> SUFFICES ASSUME Same(row[r], seen), Told(r), ~new.stale
                 PROVE  new.base # None /\ new.base.of = new.text
      OBVIOUS
    <3>1. row[r].stale \in BOOLEAN /\ seen.stale \in BOOLEAN
      BY <2>1, <2>2 DEF Profile
    <3>2. to = seen.text /\ ~row[r].stale
      BY <3>1 DEF Saved, Same
    <3>3. row[r] # None
      BY <2>2, NoneAssumption
    <3> QED
      BY <3>2, <3>3 DEF Saved, Same, Told
  <2>5. Update(w, r, new, FALSE)
    BY <1>3 DEF SaveEnd
  <2>6. /\ row' \in [Rows -> Profile \cup {None}] /\ newer' \subseteq Rows \X Rows
        /\ blind' \subseteq Rows /\ Flags'
    <3> HIDE DEF r, new
    <3> QED
      BY <2>1, <2>3, <2>4, <2>5, UpdateTells
  <2>7. thread' \in [Threads -> Work]
    BY <1>3, WorkGoesOn DEF SaveEnd, Work
  <2> QED
    BY <1>3, <2>6, <2>7 DEF SaveEnd, TypeOK
<1>4. ASSUME NEW r \in Rows, CreateEnd(w, r)
      PROVE  IInv'
  <2>1. thread[w].to \in Texts \cup {None}
    BY <1>4, AtWork DEF CreateEnd
  <2>2. NewProfile(thread[w].to) \in Profile
    BY <2>1 DEF NewProfile, Profile
  <2>3. row' \in [Rows -> Profile \cup {None}]
    BY <1>4, <2>2 DEF CreateEnd, TypeOK
  <2>4. newer' \subseteq Rows \X Rows
    BY <1>4 DEF CreateEnd, TypeOK, Touched, Without, Held
  <2>5. Flags'
    <3>1. ASSUME NEW q \in Rows, q \notin blind PROVE Told(q)'
      <4>1. CASE q = r
        BY <1>4, <4>1 DEF CreateEnd, TypeOK, Told, NewProfile
      <4>2. CASE q # r
        BY <1>4, <3>1, <4>2 DEF CreateEnd, TypeOK, Told, Flags
      <4> QED
        BY <4>1, <4>2
    <3> QED
      BY <1>4, <3>1 DEF Flags, CreateEnd
  <2>6. thread' \in [Threads -> Work]
    BY <1>4, WorkGoesOn DEF CreateEnd, Work
  <2> QED
    BY <1>4, <2>3, <2>4, <2>5, <2>6 DEF CreateEnd, TypeOK
<1> QED
  BY <1>1, <1>2, <1>3, <1>4 DEF Save

\* A parse is of the text its writer had loaded, and so of the row's, if it had seen
\* the last write.
LEMMA ParsedTells ==
    ASSUME NEW old \in Profile, NEW seen \in Profile, seen.text \in Texts,
           NEW forgotten \in BOOLEAN
    PROVE  LET new == Parsed(old, seen, forgotten) IN
           /\ new \in Profile
           /\ Same(old, seen) => new.base # None /\ new.base.of = new.text
<1>1. Parse(seen.text) \in Structure /\ Parse(seen.text).of = seen.text
  BY ParseOf
<1>2. Parse(seen.text) # None
  BY <1>1, NoneAssumption
<1> QED
  BY <1>1, <1>2 DEF Parsed, Profile, Same

\* Giving the structure of a row an order makes it of no other text.
LEMMA WithBaseTells ==
    ASSUME NEW r \in Rows, row[r] \in Profile, NEW seen \in Profile, seen.base # None,
           NEW t \in Texts \cup {None}
    PROVE  LET new == WithBase(row[r], Ordered(seen.base, t)) IN
           /\ new \in Profile
           /\ Ordered(seen.base, t) \in Structure
           /\ Same(row[r], seen) /\ Told(r) =>
                (~new.stale => new.base # None /\ new.base.of = new.text)
<1>1. seen.base \in Structure
  BY DEF Profile
<1>2. Ordered(seen.base, t) \in Structure /\ Ordered(seen.base, t).of = seen.base.of
  BY <1>1, OrderedOf
<1>3. Ordered(seen.base, t) # None /\ row[r] # None
  BY <1>2, NoneAssumption
<1>4. WithBase(row[r], Ordered(seen.base, t)) \in Profile
  BY <1>2 DEF WithBase, Profile
<1> QED
  BY <1>2, <1>3, <1>4 DEF WithBase, Same, Told

\* What begins with the user's profile holds it as it is.
LEMMA LoadingKeeps ==
    ASSUME IInv, NEW w \in Threads, NEW what \in {"ingest", "tailor"}, Loading(w, what)
    PROVE  IInv'
<1> USE DEF IInv
<1>1. PICK r \in Active : /\ row[r].text # None
                          /\ Load(w, [at |-> what, row |-> r, seen |-> row[r]])
                          /\ UNCHANGED saves
  BY DEF Loading
<1>2. r \in Rows /\ row[r] \in Loaded
  BY <1>1 DEF Active, Held, TypeOK, Loaded
<1>3. [at |-> what, row |-> r, seen |-> row[r]] \in Work
  BY <1>2 DEF Work
<1>4. thread' \in [Threads -> Work]
  BY <1>1, <1>3, WorkGoesOn DEF Load
<1> QED
  BY <1>1, <1>4, FlagsStand DEF Load, TypeOK

\* What the parse, the tailoring and the page write: of the text they had loaded.
LEMMA RunKeeps ==
    ASSUME IInv, NEW w \in Threads, Run(w)
    PROVE  IInv'
<1> USE DEF IInv
<1> DEFINE r == thread[w].row
           seen == thread[w].seen
<1>1. CASE IngestBegin(w)
  BY <1>1, LoadingKeeps DEF IngestBegin
<1>2. ASSUME NEW forgotten \in BOOLEAN, IngestEnd(w, forgotten)
      PROVE  IInv'
  <2> DEFINE new == Parsed(row[r], seen, forgotten)
  <2>1. r \in Rows /\ seen \in Profile /\ seen.text \in Texts
    BY <1>2, AtWork DEF IngestEnd
  <2>2. row[r] \in Profile /\ Update(w, r, new, TRUE)
    BY <1>2, <2>1 DEF IngestEnd, Update, TypeOK
  <2>3. new \in Profile /\ (Same(row[r], seen) => new.base # None /\ new.base.of = new.text)
    BY <2>1, <2>2, ParsedTells
  <2>4. /\ row' \in [Rows -> Profile \cup {None}] /\ newer' \subseteq Rows \X Rows
        /\ blind' \subseteq Rows /\ Flags'
    <3> HIDE DEF r, new
    <3> QED
      BY <2>1, <2>2, <2>3, UpdateTells
  <2>5. thread' \in [Threads -> Work]
    BY <1>2, WorkGoesOn DEF IngestEnd, Work
  <2> QED
    BY <1>2, <2>4, <2>5 DEF IngestEnd, TypeOK
<1>3. CASE TailorBegin(w)
  BY <1>3, LoadingKeeps DEF TailorBegin
<1>4. CASE Reuse(w)
  <2> DEFINE s == Ordered(seen.base, seen.text)
             new == WithBase(row[r], s)
  <2>1. r \in Rows /\ seen \in Profile /\ seen.text \in Texts /\ seen.base # None
    BY <1>4, AtWork DEF Reuse
  <2>2. s \in Structure
    BY <2>1, OrderedOf DEF Profile
  <2>3. /\ row' \in [Rows -> Profile \cup {None}] /\ newer' \subseteq Rows \X Rows
        /\ blind' \subseteq Rows /\ Flags'
    <3>1. CASE UNCHANGED <<row, newer, blind>>
      BY <3>1, FlagsStand DEF TypeOK
    <3>2. CASE Update(w, r, new, FALSE)
      <4>1. row[r] \in Profile
        BY <2>1, <3>2 DEF Update, TypeOK
      <4>2. /\ new \in Profile
            /\ Same(row[r], seen) /\ Told(r) =>
                 (~new.stale => new.base # None /\ new.base.of = new.text)
        BY <2>1, <4>1, WithBaseTells
      <4> HIDE DEF r, new
      <4> QED
        BY <2>1, <3>2, <4>2, UpdateTells
    <3> QED
      BY <1>4, <3>1, <3>2 DEF Reuse
  <2>4. thread' \in [Threads -> Work]
    <3>1. [at |-> "write", row |-> r, original |-> s] \in Work
      BY <2>1, <2>2 DEF Work
    <3> QED
      BY <1>4, <3>1, WorkGoesOn DEF Reuse, Writing
  <2> QED
    BY <1>4, <2>3, <2>4 DEF Reuse, TypeOK
<1>5. CASE Reparse(w)
  <2> DEFINE new == Parsed(row[r], seen, TRUE)
  <2>1. r \in Rows /\ seen \in Profile /\ seen.text \in Texts
    BY <1>5, AtWork DEF Reparse
  <2>2. row[r] \in Profile /\ Update(w, r, new, TRUE)
    BY <1>5, <2>1 DEF Reparse, Update, TypeOK
  <2>3. new \in Profile /\ (Same(row[r], seen) => new.base # None /\ new.base.of = new.text)
    BY <2>1, <2>2, ParsedTells
  <2>4. /\ row' \in [Rows -> Profile \cup {None}] /\ newer' \subseteq Rows \X Rows
        /\ blind' \subseteq Rows /\ Flags'
    <3> HIDE DEF r, new
    <3> QED
      BY <2>1, <2>2, <2>3, UpdateTells
  <2>5. thread' \in [Threads -> Work]
    <3>1. [at |-> "write", row |-> r, original |-> Parse(seen.text)] \in Work
      BY <2>1, ParseOf DEF Work
    <3> QED
      BY <1>5, <3>1, WorkGoesOn DEF Reparse, Writing
  <2> QED
    BY <1>5, <2>4, <2>5 DEF Reparse, TypeOK
<1>6. CASE TailorEnd(w)
  <2>1. thread' \in [Threads -> Work]
    BY <1>6, WorkGoesOn DEF TailorEnd, Work
  <2> QED
    BY <1>6, <2>1, AtWork, FlagsStand DEF TailorEnd, TypeOK
<1>7. CASE ViewBegin(w)
  <2>1. PICK q \in Rows \cup {None} :
            Load(w, [at |-> "view", row |-> q, original |-> draft,
                     seen |-> IF q = None THEN None ELSE row[q]])
    BY <1>7 DEF ViewBegin
  <2>2. draft \in Structure /\ (q # None => row[q] \in Profile \cup {None})
    BY <1>7 DEF ViewBegin, TypeOK
  <2>3. [at |-> "view", row |-> q, original |-> draft,
         seen |-> IF q = None THEN None ELSE row[q]] \in Work
    BY <2>2 DEF Work
  <2>4. thread' \in [Threads -> Work]
    BY <2>1, <2>3, WorkGoesOn DEF Load
  <2> QED
    BY <1>7, <2>1, <2>4, FlagsStand DEF ViewBegin, Load, TypeOK
<1>8. CASE ViewDraft(w)
  <2> DEFINE t == IF seen = None THEN None ELSE seen.text
             s == Ordered(thread[w].original, t)
             next == IF r = None THEN Idle
                     ELSE [at |-> "view base", row |-> r,
                           seen |-> IF s = thread[w].original THEN seen ELSE row[r]]
  <2>1. /\ r \in Rows \cup {None} /\ thread[w].original \in Structure
        /\ seen \in Profile \cup {None}
    BY <1>8, AtWork DEF ViewDraft
  <2>2. t \in Texts \cup {None}
    BY <2>1 DEF Profile
  <2>3. s \in Structure
    BY <2>1, <2>2, OrderedOf
  <2>4. r # None => row[r] \in Profile \cup {None}
    BY <2>1 DEF TypeOK
  <2>5. next \in Work
    BY <2>1, <2>4 DEF Work
  <2>6. thread' \in [Threads -> Work]
    BY <1>8, <2>5, WorkGoesOn DEF ViewDraft
  <2> QED
    BY <1>8, <2>3, <2>6, FlagsStand DEF ViewDraft, TypeOK
<1>9. CASE ViewBase(w)
  <2> DEFINE new == WithBase(row[r], Ordered(seen.base, seen.text))
  <2>1. r \in Rows /\ seen \in Profile /\ seen.base # None /\ Update(w, r, new, FALSE)
    BY <1>9, AtWork DEF ViewBase
  <2>2. seen.text \in Texts \cup {None} /\ row[r] \in Profile
    BY <2>1 DEF Profile, Update, TypeOK
  <2>3. /\ new \in Profile
        /\ Same(row[r], seen) /\ Told(r) =>
             (~new.stale => new.base # None /\ new.base.of = new.text)
    BY <2>1, <2>2, WithBaseTells
  <2>4. /\ row' \in [Rows -> Profile \cup {None}] /\ newer' \subseteq Rows \X Rows
        /\ blind' \subseteq Rows /\ Flags'
    <3> HIDE DEF r, new
    <3> QED
      BY <2>1, <2>3, UpdateTells
  <2>5. thread' \in [Threads -> Work]
    BY <1>9, WorkGoesOn DEF ViewBase, Work
  <2> QED
    BY <1>9, <2>4, <2>5 DEF ViewBase, TypeOK
<1>10. CASE Nothing(w)
  <2>1. thread' \in [Threads -> Work]
    BY <1>10, WorkGoesOn DEF Nothing, Work
  <2> QED
    BY <1>10, <2>1, FlagsStand DEF Nothing, TypeOK
<1> QED
  BY <1>1, <1>2, <1>3, <1>4, <1>5, <1>6, <1>7, <1>8, <1>9, <1>10 DEF Run

\* Which profile is in use, and that another is gone, changes no flag.
LEMMA ChoiceKeeps ==
    ASSUME IInv, NEW r \in Rows, Activate(r) \/ Delete(r)
    PROVE  IInv'
<1> USE DEF IInv
<1>1. CASE Activate(r)
  <2>1. ASSUME NEW q \in Rows, row[q] # None
        PROVE  /\ row'[q] = [row[q] EXCEPT !.active = q = r]
               /\ row[q] \in Profile
    BY <1>1, <2>1 DEF Activate, TypeOK
  <2>2. ASSUME NEW q \in Rows, row[q] # None
        PROVE  /\ row'[q] \in Profile
               /\ row'[q].text = row[q].text /\ row'[q].base = row[q].base
               /\ row'[q].stale = row[q].stale
    BY <2>1, <2>2 DEF Profile
  <2>3. ASSUME NEW q \in Rows, row[q] = None PROVE row'[q] = None
    BY <1>1, <2>3 DEF Activate
  <2>4. row' \in [Rows -> Profile \cup {None}]
    BY <1>1, <2>2, <2>3 DEF Activate
  <2>5. newer' \subseteq Rows \X Rows
    BY <1>1 DEF Activate, TypeOK, Touched, Without, Held
  <2>6. Flags'
    BY <1>1, <2>2, <2>3 DEF Flags, Told, Activate
  <2> QED
    BY <1>1, <2>4, <2>5, <2>6 DEF Activate, TypeOK
<1>2. CASE Delete(r)
  <2>1. row' \in [Rows -> Profile \cup {None}]
    BY <1>2 DEF Delete, TypeOK
  <2>2. newer' \subseteq Rows \X Rows
    BY <1>2 DEF Delete, TypeOK, Without
  <2>3. Flags'
    <3>1. ASSUME NEW q \in Rows, q \notin blind' PROVE Told(q)'
      <4>1. CASE q = r
        BY <1>2, <4>1 DEF Delete, TypeOK, Told
      <4>2. CASE q # r
        BY <1>2, <3>1, <4>2 DEF Delete, TypeOK, Told, Flags
      <4> QED
        BY <4>1, <4>2
    <3> QED
      BY <1>2, <3>1 DEF Flags, Delete
  <2> QED
    BY <1>2, <2>1, <2>2, <2>3 DEF Delete, TypeOK
<1> QED
  BY <1>1, <1>2

\* Every step keeps the types and the flags of the rows nobody wrote to blindly.
LEMMA NextIInv == IInv /\ [Next]_vars => IInv'
<1> SUFFICES ASSUME IInv, [Next]_vars PROVE IInv'
  OBVIOUS
<1>1. CASE Next
  BY <1>1, SaveKeeps, RunKeeps, ChoiceKeeps DEF Next
<1>2. CASE UNCHANGED vars
  BY <1>2, FlagsStand DEF vars, IInv, TypeOK
<1> QED
  BY <1>1, <1>2

\* Where the flag is lowered the structure is of the row's text, so that a draft of
\* another text is not that structure, and the page says so.
LEMMA FlagsTellDrafts == IInv => OfThisText
<1> SUFFICES ASSUME IInv PROVE OfThisText
  OBVIOUS
<1>1. \A r \in Rows \ blind : Told(r)
  BY DEF IInv, Flags
<1>2. ASSUME NEW r \in Active \ blind, draft # None, ~row[r].stale,
             draft.of # row[r].text
      PROVE  BaseChanged(r)
  <2>1. r \in Rows \ blind /\ row[r] # None
    BY DEF Active, Held
  <2>2. row[r].base # None /\ row[r].base.of = row[r].text
    BY <1>1, <1>2, <2>1 DEF Told
  <2> QED
    BY <1>2, <2>2 DEF BaseChanged
<1> QED
  BY <1>1, <1>2 DEF OfThisText

-----------------------------------------------------------------------------
\* The profiles, the draft and what the requests and runs are in the middle of keep
\* their shapes, for any rows, texts, threads and number of saves.
THEOREM TypeCorrect == Spec => []TypeOK
<1>1. IInv => TypeOK
  BY DEF IInv
<1> QED
  BY <1>1, InitIInv, NextIInv, PTL DEF Spec

\* A profile nobody wrote to from an old picture of it has a flag that tells whether
\* its structure is of its text, and what was tailored from another text than the
\* user's is told apart, by the flag or on its page (models.py:550-552,
\* generate.py:653).
THEOREM FlagTells == Spec => []OfThisText
<1> QED
  BY InitIInv, NextIInv, FlagsTellDrafts, PTL DEF Spec

\* What a refine does to the draft it has loaded, and not to the one that is there by then.
Respects(seen) ==
    /\ \A i \in DOMAIN orig : RejectedItem(seen, i) => Kept(tailored', i)
    /\ tailored'.order # seen.order => EffectiveOrder(tailored') = tailored'.order

\* w has refined a draft.
RefinedBy(w) == request[w].at = "refine" /\ request'[w] = Waiting /\ tailored' # tailored

\* A decision bears the name of an original item, and a changed item has that name among
\* the changes: with its decision carried it is as rejected as it was.  Otherwise the
\* answer has the item as the user wrote it.
LEMMA RefineRespects ==
    ASSUME NEW w \in Requests, NEW t, NEW answer, NEW seen, seen = request[w].seen,
           RefineEnd(w, t, answer)
    PROVE  Respects(seen)
<1> DEFINE dec == [id \in Ids(orig, t) |->
                     IF id \in DOMAIN seen.dec THEN seen.dec[id] ELSE "pending"]
           order == IF answer = Unset THEN EffectiveOrder(seen) ELSE answer
<1>1. tailored' = [tail |-> t, dec |-> dec, order |-> order, move |-> MoveCarried(seen, order)]
  BY DEF RefineEnd, Write
<1>2. tailored'.tail = t /\ tailored'.dec = dec /\ tailored'.order = order
      /\ tailored'.move = MoveCarried(seen, order)
  BY <1>1
<1>3. ASSUME NEW i \in DOMAIN orig, RejectedItem(seen, i) PROVE Kept(tailored', i)
  <2> DEFINE pairs == Pairs(orig, t)
  <2>1. \A any : ItemId(i, any) = <<"item", i>>
    BY DEF ItemId
  <2>2. <<"item", i>> \in DOMAIN seen.dec /\ seen.dec[<<"item", i>>] = "rejected"
    BY <1>3, <2>1 DEF RejectedItem, Out
  <2>3. CASE i \in FreeOf(orig, pairs) \cup {p[1] : p \in Modified(orig, t, pairs)}
    <3>1. ItemId(i, pairs) \in Ids(orig, t)
      BY <2>3 DEF Ids
    <3>2. dec[<<"item", i>>] = "rejected" /\ <<"item", i>> \in DOMAIN dec
      BY <2>1, <2>2, <3>1
    <3>3. Out(tailored'.dec, ItemId(i, Pairs(orig, tailored'.tail)))
      BY <1>2, <2>1, <3>2 DEF Out
    <3> QED BY <3>3 DEF Kept
  <2>4. CASE i \notin FreeOf(orig, pairs) \cup {p[1] : p \in Modified(orig, t, pairs)}
    <3>1. PICK p \in pairs : p[1] = i
      BY <2>4 DEF FreeOf
    <3>2. p \notin Modified(orig, t, pairs)
      BY <2>4, <3>1
    <3>3. t[p[2]] = orig[i]
      BY <3>1, <3>2 DEF Modified
    <3> QED BY <1>2, <3>1, <3>3 DEF Kept
  <2> QED BY <2>3, <2>4
<1>4. order # seen.order => EffectiveOrder(tailored') = order
  BY <1>2 DEF EffectiveOrder, MoveCarried
<1> QED BY <1>2, <1>3, <1>4 DEF Respects

\* A step of v begins its request or ends it, and concerns no other.
Step(v) ==
    \/ RunBegin(v) \/ RunFails(v) \/ \E t \in Answers : RunEnd(v, t)
    \/ RefineBegin(v) \/ RefineFails(v)
    \/ \E t \in Answers, answer \in SectionOrders \cup {Unset} : RefineEnd(v, t, answer)
    \/ tailored # Unset /\ \E id \in DOMAIN tailored.dec, d \in Decision : DecideBegin(v, id, d)
    \/ \E d \in Decision : DecideMoveBegin(v, d)
    \/ \E order \in SectionOrders : MoveBegin(v, order)
    \/ DecideEnd(v) \/ DecideMoveEnd(v) \/ MoveEnd(v)

\* A step of a request takes up its work, writes what came of it, or is a refine's end.
LEMMA BeginsOrEnds ==
    ASSUME NEW v \in Requests, Step(v)
    PROVE  \/ RefineBegin(v)
           \/ \E work : work.at # "refine" /\ Start(v, work)
           \/ RefineFails(v) \/ \E t, answer : RefineEnd(v, t, answer)
           \/ \E value : request[v].at # "refine" /\ Write(v, value)
<1>1. ASSUME RunBegin(v) PROVE \E work : work.at # "refine" /\ Start(v, work)
  BY <1>1 DEF RunBegin
<1>2. ASSUME NEW id, NEW d, DecideBegin(v, id, d)
      PROVE  \E work : work.at # "refine" /\ Start(v, work)
  BY <1>2 DEF DecideBegin
<1>3. ASSUME NEW d, DecideMoveBegin(v, d) PROVE \E work : work.at # "refine" /\ Start(v, work)
  BY <1>3 DEF DecideMoveBegin
<1>4. ASSUME NEW order, MoveBegin(v, order) PROVE \E work : work.at # "refine" /\ Start(v, work)
  BY <1>4 DEF MoveBegin
<1>5. ASSUME \/ RunFails(v) \/ \E t \in Answers : RunEnd(v, t)
             \/ DecideEnd(v) \/ DecideMoveEnd(v) \/ MoveEnd(v)
      PROVE  \E value : request[v].at # "refine" /\ Write(v, value)
  BY <1>5 DEF RunFails, RunEnd, DecideEnd, DecideMoveEnd, MoveEnd
<1> QED BY <1>1, <1>2, <1>3, <1>4, <1>5 DEF Step

LEMMA StepsOnly == TailorNext => \E v \in Requests : Step(v)
  BY DEF TailorNext, Step

\* A step of v touches its own place only.
LEMMA OwnPlace ==
    ASSUME NEW v \in Requests, Step(v)
    PROVE  \E any : request' = [request EXCEPT ![v] = any]
<1>1. RefineBegin(v) => \E work : Start(v, work)
  BY DEF RefineBegin
<1>2. RefineFails(v) \/ (\E t, answer : RefineEnd(v, t, answer)) => \E value : Write(v, value)
  BY DEF RefineFails, RefineEnd
<1> QED BY <1>1, <1>2, BeginsOrEnds DEF Start, Write

\* A refined draft is the end of a refine.
LEMMA RefineOnly ==
    ASSUME DOMAIN request = Requests, NEW v \in Requests, Step(v), NEW w \in Requests, RefinedBy(w)
    PROVE  \E t, answer : RefineEnd(w, t, answer)
<1>1. request[w].at = "refine" /\ request'[w] = Waiting /\ tailored' # tailored
  BY DEF RefinedBy
<1>2. request'[w] # request[w]
  BY <1>1 DEF Waiting
<1>3. v = w
  BY <1>2, OwnPlace
<1>4. ~RefineBegin(w) /\ ~RefineFails(w) /\ \A work : ~Start(w, work)
  <2>1. request[w] # Waiting
    BY <1>1 DEF Waiting
  <2> QED BY <1>1, <2>1 DEF RefineBegin, RefineFails, Start, Write
<1> QED BY <1>1, <1>3, <1>4, BeginsOrEnds

LEMMA PlacesStay ==
    ASSUME DOMAIN request = Requests, [TailorNext]_tailorVars
    PROVE  DOMAIN request' = Requests
<1>1. CASE TailorNext
  BY <1>1, StepsOnly, OwnPlace
<1>2. CASE UNCHANGED tailorVars
  BY <1>2 DEF tailorVars
<1> QED BY <1>1, <1>2

-----------------------------------------------------------------------------
\* For any texts, alignments, answers and requests at once: what was rejected in the draft
\* a refine has loaded is reverted in the one it writes or has nothing left to revert, and
\* a move of the sections it brings is not taken for one that was rejected.
THEOREM RefinesRespect ==
    TailorSpec => [][\A w \in Requests : RefinedBy(w) => Respects(request[w].seen)]_tailorVars
<1> DEFINE Placed == DOMAIN request = Requests
<1>1. TailorInit => Placed
  BY DEF TailorInit
<1>2. Placed /\ [TailorNext]_tailorVars => Placed'
  BY PlacesStay
<1>3. Placed /\ [TailorNext]_tailorVars
        => [\A w \in Requests : RefinedBy(w) => Respects(request[w].seen)]_tailorVars
  BY StepsOnly, RefineOnly, RefineRespects
<1> HIDE DEF Placed
<1> QED BY <1>1, <1>2, <1>3, PTL DEF TailorSpec


-----------------------------------------------------------------------------
(* Induction and recursion over the natural numbers, for sets and functions *)

\* What holds of 0 and of n + 1 where it holds of n holds of every number: otherwise there
\* were a least one it does not hold of.
LEMMA SetInduction ==
    ASSUME NEW T, 0 \in T, \A n \in Nat : n \in T => n + 1 \in T
    PROVE  \A n \in Nat : n \in T
<1> DEFINE bad == Nat \ T
<1>1. ASSUME bad # {} PROVE FALSE
  <2>1. PICK n \in bad : \A m \in bad : <<m, n>> \notin OpToRel(<, Nat)
    BY ONLY <1>1, bad \subseteq Nat, NatLessThanWellFounded, WFMin
  <2>2. \A m \in bad : ~(m < n)
    BY <2>1 DEF OpToRel
  <2>3. n # 0 /\ n \in Nat
    BY <2>1
  <2>4. n - 1 \in Nat /\ n - 1 < n /\ (n - 1) + 1 = n
    BY <2>3
  <2>5. n - 1 \in T
    BY <2>2, <2>4
  <2> QED BY <2>1, <2>4, <2>5
<1> QED BY <1>1

\* The beginnings of the function that starts with a and goes on with F
Begun(X, a, F, n) ==
    {g \in [0..n -> X] : g[0] = a /\ \A m \in Nat : m < n => g[m + 1] = F[<<g[m], m + 1>>]}

\* There is such a beginning of every length,
LEMMA BegunAtEvery ==
    ASSUME NEW X, NEW a \in X, NEW F \in [X \X Nat -> X]
    PROVE  \A n \in Nat : Begun(X, a, F, n) # {}
<1> DEFINE T == {n \in Nat : Begun(X, a, F, n) # {}}
<1>1. 0 \in T
  <2>1. [m \in 0..0 |-> a] \in Begun(X, a, F, 0)
    BY DEF Begun
  <2> QED BY <2>1
<1>2. ASSUME NEW n \in Nat, n \in T PROVE n + 1 \in T
  <2>1. PICK g \in [0..n -> X] :
          g[0] = a /\ \A m \in Nat : m < n => g[m + 1] = F[<<g[m], m + 1>>]
    BY <1>2 DEF Begun
  <2> DEFINE next == F[<<g[n], n + 1>>]
             h == [m \in 0..(n + 1) |-> IF m <= n THEN g[m] ELSE next]
  <2>2. next \in X
    BY <2>1
  <2>3. h \in [0..(n + 1) -> X]
    BY <2>1, <2>2
  <2>4. h[0] = a
    BY <2>1
  <2>5. ASSUME NEW m \in Nat, m < n + 1 PROVE h[m + 1] = F[<<h[m], m + 1>>]
    <3>1. CASE m < n
      BY <2>1, <3>1
    <3>2. CASE m = n
      BY <3>2
    <3> QED BY <2>5, <3>1, <3>2
  <2>6. h \in Begun(X, a, F, n + 1)
    BY <2>3, <2>4, <2>5 DEF Begun
  <2> QED BY <2>6
<1> HIDE DEF T
<1>3. \A n \in Nat : n \in T
  BY <1>1, <1>2, SetInduction
<1> QED BY <1>3 DEF T

\* and any two of them agree as far as both go.
LEMMA BegunAlike ==
    ASSUME NEW X, NEW a \in X, NEW F \in [X \X Nat -> X]
    PROVE  \A m \in Nat : \A k, n \in Nat :
             \A g \in Begun(X, a, F, k), h \in Begun(X, a, F, n) :
               m <= k /\ m <= n => g[m] = h[m]
<1> DEFINE T == {m \in Nat : \A k, n \in Nat :
                   \A g \in Begun(X, a, F, k), h \in Begun(X, a, F, n) :
                     m <= k /\ m <= n => g[m] = h[m]}
<1>1. 0 \in T
  BY DEF Begun
<1>2. ASSUME NEW m \in Nat, m \in T PROVE m + 1 \in T
  <2> SUFFICES ASSUME NEW k \in Nat, NEW n \in Nat,
                      NEW g \in Begun(X, a, F, k), NEW h \in Begun(X, a, F, n),
                      m + 1 <= k, m + 1 <= n
               PROVE  g[m + 1] = h[m + 1]
    OBVIOUS
  <2>1. g[m] = h[m]
    BY <1>2
  <2>2. g[m + 1] = F[<<g[m], m + 1>>]
    BY m < k DEF Begun
  <2>3. h[m + 1] = F[<<h[m], m + 1>>]
    BY m < n DEF Begun
  <2> QED BY <2>1, <2>2, <2>3
<1> HIDE DEF T
<1>3. \A m \in Nat : m \in T
  BY <1>1, <1>2, SetInduction
<1> QED BY <1>3 DEF T

Follows(f, a, F) == f[0] = a /\ \A n \in Nat : f[n + 1] = F[<<f[n], n + 1>>]

\* There is a function that starts with a and goes on with F.
LEMMA Recursion ==
    ASSUME NEW X, NEW a \in X, NEW F \in [X \X Nat -> X]
    PROVE  \E f \in [Nat -> X] : Follows(f, a, F)
<1> DEFINE b(n) == CHOOSE g : g \in Begun(X, a, F, n)
           f == [n \in Nat |-> b(n)[n]]
<1>1. \A n \in Nat : b(n) \in Begun(X, a, F, n)
  BY BegunAtEvery
<1> HIDE DEF b
<1>2. f \in [Nat -> X]
  BY <1>1 DEF Begun
<1>3. f[0] = a
  BY <1>1 DEF Begun
<1>4. ASSUME NEW n \in Nat PROVE f[n + 1] = F[<<f[n], n + 1>>]
  <2>1. b(n + 1)[n + 1] = F[<<b(n + 1)[n], n + 1>>]
    BY <1>1 DEF Begun
  <2>2. b(n + 1)[n] = b(n)[n]
    BY <1>1, BegunAlike
  <2> QED BY <2>1, <2>2
<1>5. Follows(f, a, F)
  BY <1>3, <1>4 DEF Follows
<1> QED BY <1>2, <1>5

-----------------------------------------------------------------------------
(* Finite sets of numbers, their members by rank, and what is listed by it  *)

\* As many: one of B for one of A
LEMMA AsMany ==
    ASSUME NEW A, NEW B, IsFiniteSet(A), NEW g \in [A -> B],
           \A x, y \in A : g[x] = g[y] => x = y,
           \A z \in B : \E x \in A : g[x] = z
    PROVE  IsFiniteSet(B) /\ Cardinality(B) = Cardinality(A)
<1>1. g \in Injection(A, B) /\ g \in Surjection(A, B)
  BY Zenon DEF Injection, IsInjective, Surjection
<1>2. g \in Bijection(A, B)
  BY <1>1 DEF Bijection
<1>3. ExistsBijection(A, B)
  BY <1>2 DEF ExistsBijection
<1> QED BY <1>3, FS_Bijection

\* A part that leaves something out has fewer.
LEMMA Fewer ==
    ASSUME NEW B, IsFiniteSet(B), NEW A \in SUBSET B, NEW x \in B, x \notin A
    PROVE  IsFiniteSet(A) /\ Cardinality(A) \in Nat /\ Cardinality(B) \in Nat
           /\ Cardinality(A) < Cardinality(B)
<1>1. IsFiniteSet(A) /\ Cardinality(A) <= Cardinality(B) /\ Cardinality(A) # Cardinality(B)
  BY FS_Subset
<1>2. Cardinality(A) \in Nat /\ Cardinality(B) \in Nat
  BY <1>1, FS_CardinalityType
<1> QED BY <1>1, <1>2

\* A greater member has a greater rank,
LEMMA RankGrows ==
    ASSUME NEW S \in SUBSET Nat, IsFiniteSet(S), NEW i \in S, NEW k \in S, i < k
    PROVE  Rank(S, i) < Rank(S, k)
<1> DEFINE A == {x \in S : x <= i}
           B == {x \in S : x <= k}
<1>1. IsFiniteSet(B)
  BY FS_Subset
<1>2. A \in SUBSET B
  <2>1. \A x \in S : x \in Nat
    OBVIOUS
  <2>2. \A x \in S : x <= i => x <= k
    BY <2>1
  <2> QED BY <2>2
<1>3. k \in B /\ k \notin A
  BY i \in Nat, k \in Nat
<1> QED BY <1>1, <1>2, <1>3, Fewer DEF Rank

\* the ranks of n members are from 1 to n,
LEMMA RankType ==
    ASSUME NEW S \in SUBSET Nat, IsFiniteSet(S), NEW i \in S
    PROVE  Rank(S, i) \in 1..Cardinality(S)
<1> DEFINE A == {x \in S : x <= i}
<1>1. IsFiniteSet(A) /\ Cardinality(A) <= Cardinality(S)
  BY FS_Subset
<1>2. i \in A
  BY i \in Nat
<1>3. Cardinality(A) # 0
  BY <1>1, <1>2, FS_EmptySet
<1>4. Cardinality(A) \in Nat /\ Cardinality(S) \in Nat
  BY <1>1, FS_CardinalityType
<1> QED BY <1>1, <1>3, <1>4 DEF Rank

\* and no two members have the same one.
LEMMA RankTells ==
    ASSUME NEW S \in SUBSET Nat, IsFiniteSet(S), NEW i \in S, NEW k \in S,
           Rank(S, i) = Rank(S, k)
    PROVE  i = k
<1>1. Rank(S, i) \in Nat /\ Rank(S, k) \in Nat
  BY RankType, FS_CardinalityType
<1>2. ~(i < k) /\ ~(k < i)
  BY <1>1, RankGrows
<1> QED BY <1>2, i \in Nat, k \in Nat

\* A finite set of numbers has a member for each rank up to its size.
LEMMA RankOnto ==
    ASSUME NEW S \in SUBSET Nat, IsFiniteSet(S), NEW k \in 1..Cardinality(S)
    PROVE  \E i \in S : Rank(S, i) = k
<1> DEFINE n == Cardinality(S)
           r == [i \in S |-> Rank(S, i)]
<1>1. n \in Nat
  BY FS_CardinalityType
<1>2. r \in [S -> 1..n]
  BY RankType
<1>3. \A x, y \in S : r[x] = r[y] => x = y
  BY RankTells
<1>4. IsFiniteSet(1..n) /\ Cardinality(1..n) = n
  BY <1>1, FS_Interval
<1> HIDE DEF r
<1>5. r \in Injection(S, 1..n)
  BY <1>2, <1>3, Zenon DEF Injection, IsInjective
<1>6. r \in Surjection(S, 1..n)
  BY <1>4, <1>5, FS_Injection
<1>7. \E i \in S : r[i] = k
  BY <1>6 DEF Surjection
<1>8. PICK i \in S : r[i] = k
  BY <1>7
<1> QED BY <1>8 DEF r

\* Nth and Rank are each other's inverse.
LEMMA NthIs ==
    ASSUME NEW S \in SUBSET Nat, IsFiniteSet(S)
    PROVE  /\ \A k \in 1..Cardinality(S) : Nth(S, k) \in S /\ Rank(S, Nth(S, k)) = k
           /\ \A i \in S : Nth(S, Rank(S, i)) = i
<1>1. ASSUME NEW k \in 1..Cardinality(S) PROVE Nth(S, k) \in S /\ Rank(S, Nth(S, k)) = k
  BY RankOnto DEF Nth
<1>2. ASSUME NEW i \in S PROVE Nth(S, Rank(S, i)) = i
  <2>1. Nth(S, Rank(S, i)) \in S /\ Rank(S, Nth(S, Rank(S, i))) = Rank(S, i)
    BY <1>1, RankType
  <2>2. ASSUME NEW x, x \in S, Rank(S, x) = Rank(S, i) PROVE x = i
    BY <2>2, RankTells
  <2> QED BY <2>1, <2>2
<1> QED BY <1>1, <1>2

\* A list has each value as often as the function it lists.
LEMMA ListedTimes ==
    ASSUME NEW f, DOMAIN f \in SUBSET Nat, IsFiniteSet(DOMAIN f), NEW x
    PROVE  Times(Listed(f), x) = Cardinality({i \in DOMAIN f : f[i] = x})
<1> DEFINE S == DOMAIN f
           s == Listed(f)
           A == {k \in 1..Cardinality(S) : f[Nth(S, k)] = x}
           B == {i \in S : f[i] = x}
           g == [k \in A |-> Nth(S, k)]
<1>1. Cardinality(S) \in Nat
  BY FS_CardinalityType
<1>2. DOMAIN s = 1..Cardinality(S) /\ \A k \in 1..Cardinality(S) : s[k] = f[Nth(S, k)]
  BY DEF Listed
<1>3. {k \in DOMAIN s : s[k] = x} = A
  BY <1>2
<1>4. IsFiniteSet(A)
  <2>1. IsFiniteSet(1..Cardinality(S))
    BY <1>1, FS_Interval
  <2> QED BY <2>1, FS_Subset
<1>5. g \in [A -> B]
  BY NthIs
<1>6. \A k, n \in A : g[k] = g[n] => k = n
  BY NthIs
<1>7. \A i \in B : \E k \in A : g[k] = i
  <2> SUFFICES ASSUME NEW i \in B PROVE \E k \in A : g[k] = i
    OBVIOUS
  <2>1. Rank(S, i) \in 1..Cardinality(S) /\ Nth(S, Rank(S, i)) = i
    BY RankType, NthIs
  <2>2. Rank(S, i) \in A
    BY <2>1
  <2> QED BY <2>1, <2>2
<1>8. Cardinality(B) = Cardinality(A)
  <2> HIDE DEF A, B, g
  <2> QED BY <1>4, <1>5, <1>6, <1>7, AsMany
<1> QED BY <1>3, <1>8 DEF Times

\* A member of a set that has all the numbers up to it is its own rank.
LEMMA RankInBeginning ==
    ASSUME NEW S \in SUBSET (Nat \ {0}), IsFiniteSet(S), NEW i \in Nat, 1..i \subseteq S
    PROVE  Rank(S, i) = i
<1>1. {x \in S : x <= i} = 1..i
  <2>1. ASSUME NEW x \in S, x <= i PROVE x \in 1..i
    <3>1. x \in Nat /\ x # 0
      OBVIOUS
    <3> QED BY <2>1, <3>1
  <2>2. ASSUME NEW x \in 1..i PROVE x \in S /\ x <= i
    OBVIOUS
  <2> QED BY <2>1, <2>2
<1>2. Cardinality(1..i) = i
  BY FS_Interval
<1> QED BY <1>1, <1>2 DEF Rank

\* A sequence lists itself.
LEMMA ListedSeq ==
    ASSUME NEW X, NEW s \in Seq(X)
    PROVE  Listed(s) = s
<1>1. PICK n \in Nat : DOMAIN s = 1..n /\ s = [k \in 1..n |-> s[k]]
  OBVIOUS
<1>2. IsFiniteSet(1..n) /\ Cardinality(1..n) = n
  BY FS_Interval
<1>3. ASSUME NEW k \in 1..n PROVE Nth(1..n, k) = k
  <2>1. Rank(1..n, k) = k
    BY <1>2, RankInBeginning
  <2> QED BY <1>2, <2>1, NthIs
<1> QED BY <1>1, <1>2, <1>3 DEF Listed

-----------------------------------------------------------------------------
(* Insertion                                                                *)

\* s with e at place p and what was there one place further
Inserted(s, p, e) ==
    [k \in 1..(Len(s) + 1) |-> IF k < p THEN s[k] ELSE IF k = p THEN e ELSE s[k - 1]]

\* What the library's InsertAt makes of a sequence, item by item
LEMMA InsertAtIs ==
    ASSUME NEW X, NEW s \in Seq(X), NEW e \in X, NEW p \in 1..(Len(s) + 1)
    PROVE  InsertAt(s, p, e) \in Seq(X) /\ InsertAt(s, p, e) = Inserted(s, p, e)
<1> DEFINE u == SubSeq(s, 1, p - 1)
           v == SubSeq(s, p, Len(s))
<1>1. Len(s) \in Nat /\ p \in Nat
  OBVIOUS
<1>2. u \in Seq(X) /\ Len(u) = p - 1 /\ \A k \in 1..(p - 1) : u[k] = s[k]
  BY <1>1
<1>3. v \in Seq(X) /\ Len(v) = Len(s) - p + 1
      /\ \A k \in 1..(Len(s) - p + 1) : v[k] = s[p + k - 1]
  BY <1>1
<1>4. InsertAt(s, p, e) = u \o <<e>> \o v
  BY DEF InsertAt
<1> HIDE DEF u, v
<1> DEFINE w == u \o <<e>>
<1>5. w \in Seq(X) /\ Len(w) = p /\ w[p] = e /\ \A k \in 1..(p - 1) : w[k] = s[k]
  BY <1>1, <1>2
<1>6. InsertAt(s, p, e) = w \o v
  BY <1>4
<1> HIDE DEF w
<1>7. InsertAt(s, p, e) \in Seq(X) /\ Len(InsertAt(s, p, e)) = Len(s) + 1
  BY <1>1, <1>3, <1>5, <1>6
<1>8. ASSUME NEW k \in 1..(Len(s) + 1)
      PROVE InsertAt(s, p, e)[k] = IF k < p THEN s[k] ELSE IF k = p THEN e ELSE s[k - 1]
  <2>1. CASE k <= p
    <3>1. InsertAt(s, p, e)[k] = w[k]
      BY <1>1, <1>3, <1>5, <1>6, <2>1
    <3> QED BY <1>1, <1>5, <2>1, <3>1
  <2>2. CASE k > p
    <3>1. InsertAt(s, p, e)[k] = v[k - p]
      BY <1>1, <1>3, <1>5, <1>6, <2>2
    <3>2. k - p \in 1..(Len(s) - p + 1) /\ p + (k - p) - 1 = k - 1
      BY <1>1, <2>2
    <3> QED BY <1>1, <1>3, <2>2, <3>1, <3>2
  <2> QED BY <1>1, <2>1, <2>2
<1> DEFINE z == InsertAt(s, p, e)
<1>9. DOMAIN z = 1..(Len(s) + 1) /\ z = [k \in DOMAIN z |-> z[k]]
  BY <1>1, <1>7
<1>10. z = Inserted(s, p, e)
  <2> HIDE DEF z
  <2> QED BY <1>8, <1>9 DEF Inserted, z
<1> QED BY <1>7, <1>10

\* What is inserted is there once more, and all else as often as before.
LEMMA InsertTimes ==
    ASSUME NEW X, NEW s \in Seq(X), NEW e \in X, NEW p \in 1..(Len(s) + 1), NEW x
    PROVE  /\ Times(s, x) \in Nat
           /\ Times(InsertAt(s, p, e), x) = Times(s, x) + (IF e = x THEN 1 ELSE 0)
<1> DEFINE z == InsertAt(s, p, e)
           n == Len(s)
           A == {k \in 1..n : s[k] = x}
           B == {k \in 1..(n + 1) : z[k] = x /\ k # p}
           C == {k \in DOMAIN z : z[k] = x}
           g == [k \in A |-> IF k < p THEN k ELSE k + 1]
<1>1. n \in Nat /\ p \in Nat /\ p >= 1 /\ p <= n + 1
  OBVIOUS
<1>2. z = [k \in 1..(n + 1) |-> IF k < p THEN s[k] ELSE IF k = p THEN e ELSE s[k - 1]]
  BY InsertAtIs DEF Inserted
<1>3. DOMAIN s = 1..n /\ DOMAIN z = 1..(n + 1)
  BY <1>2
<1> HIDE DEF z, n
<1>4. IsFiniteSet(A) /\ Cardinality(A) \in Nat
  <2>1. IsFiniteSet(1..n)
    BY <1>1, FS_Interval
  <2> QED BY <2>1, FS_Subset, FS_CardinalityType
<1>5. g \in [A -> B]
  BY <1>1, <1>2
<1>6. \A k, m \in A : g[k] = g[m] => k = m
  BY <1>1
<1>7. \A m \in B : \E k \in A : g[k] = m
  <2> SUFFICES ASSUME NEW m \in B PROVE \E k \in A : g[k] = m
    OBVIOUS
  <2>0. m \in Nat /\ m # p
    BY <1>1
  <2>1. CASE m < p
    <3>1. m \in A /\ g[m] = m
      BY <1>1, <1>2, <2>1
    <3> QED BY <3>1
  <2>2. CASE m > p
    <3>1. m - 1 \in A
      BY <1>1, <1>2, <2>2
    <3>2. g[m - 1] = m
      BY <1>1, <2>2, <3>1
    <3> QED BY <3>1, <3>2
  <2> QED BY <1>1, <2>0, <2>1, <2>2
<1>8. IsFiniteSet(B) /\ Cardinality(B) = Cardinality(A)
  <2> HIDE DEF A, B, g
  <2> QED BY <1>4, <1>5, <1>6, <1>7, AsMany
<1>9. z[p] = e /\ p \in 1..(n + 1)
  BY <1>1, <1>2
<1>10. C = IF e = x THEN B \cup {p} ELSE B
  BY <1>3, <1>9
<1>11. p \notin B
  OBVIOUS
<1>12. Cardinality(C) = Cardinality(A) + (IF e = x THEN 1 ELSE 0)
  <2> HIDE DEF A, B, C
  <2>1. Cardinality(B \cup {p}) = Cardinality(A) + 1
    BY <1>4, <1>8, <1>11, FS_AddElement
  <2>2. CASE e = x
    BY <1>10, <2>1, <2>2
  <2>3. CASE e # x
    <3>1. C = B
      BY <1>10, <2>3
    <3> QED BY <1>4, <1>8, <2>3, <3>1
  <2> QED BY <2>2, <2>3
<1>13. {k \in DOMAIN s : s[k] = x} = A
  BY <1>3
<1> QED BY <1>4, <1>12, <1>13 DEF Times, z

\* g has one value more than f, at j, and all before it.
OneMore(X, S, j, f, g) ==
    /\ S \in SUBSET (Nat \ {0}) /\ IsFiniteSet(S)
    /\ j \in Nat \ {0} /\ j \notin S /\ 1..(j - 1) \subseteq S
    /\ f \in [S -> X] /\ g \in [S \cup {j} -> X] /\ \A i \in S : g[i] = f[i]

\* It is listed with one inserted, at j.
LEMMA ListedInsert ==
    ASSUME NEW X, NEW S, NEW j, NEW f, NEW g, OneMore(X, S, j, f, g)
    PROVE  /\ Listed(f) \in Seq(X) /\ j - 1 <= Len(Listed(f))
           /\ Listed(g) = Inserted(Listed(f), j, g[j])
<1> DEFINE R == S \cup {j}
           s == Listed(f)
           z == Listed(g)
           n == Cardinality(S)
<1>0. /\ S \in SUBSET (Nat \ {0}) /\ IsFiniteSet(S)
      /\ j \in Nat \ {0} /\ j \notin S /\ 1..(j - 1) \subseteq S
      /\ f \in [S -> X] /\ g \in [S \cup {j} -> X] /\ \A i \in S : g[i] = f[i]
  BY DEF OneMore
<1>1. n \in Nat
  BY <1>0, FS_CardinalityType
<1>2. IsFiniteSet(R) /\ Cardinality(R) = n + 1
  BY <1>0, FS_AddElement
<1>3. DOMAIN f = S /\ DOMAIN g = R
  BY <1>0
<1>4. R \in SUBSET (Nat \ {0}) /\ R \in SUBSET Nat /\ S \in SUBSET Nat
  BY <1>0
<1>5. s = [k \in 1..n |-> f[Nth(S, k)]]
  BY <1>0, <1>3 DEF Listed
<1>6. z = [k \in 1..(n + 1) |-> g[Nth(R, k)]]
  BY <1>0, <1>2, <1>3 DEF Listed
<1>7. \A k \in 1..n : Nth(S, k) \in S /\ Rank(S, Nth(S, k)) = k
  BY <1>0, <1>4, NthIs
<1>8. s \in Seq(X) /\ Len(s) = n
  <2>1. \A k \in 1..n : f[Nth(S, k)] \in X
    BY <1>0, <1>7
  <2> HIDE DEF s
  <2> QED BY <1>0, <1>1, <1>5, <2>1
<1>9. j - 1 <= n
  <2>1. IsFiniteSet(1..(j - 1)) /\ Cardinality(1..(j - 1)) = j - 1
    BY <1>0, FS_Interval
  <2> QED BY <1>0, <2>1, FS_Subset
<1>10. ASSUME NEW k \in 1..(j - 1) PROVE z[k] = s[k]
  <2>1. /\ k \in Nat /\ 1..k \subseteq S /\ 1..k \subseteq R
        /\ k \in S /\ k \in 1..n /\ k \in 1..(n + 1)
    BY <1>0, <1>1, <1>9
  <2>2. Rank(S, k) = k /\ Rank(R, k) = k
    BY <1>0, <1>2, <1>4, <2>1, RankInBeginning
  <2>3. Nth(S, k) = k /\ Nth(R, k) = k
    BY <1>0, <1>2, <1>4, <2>1, <2>2, NthIs
  <2> QED BY <1>0, <1>5, <1>6, <2>1, <2>3
<1>11. z[j] = g[j]
  <2>1. 1..j \subseteq R /\ j \in R /\ j \in 1..(n + 1)
    BY <1>0, <1>1, <1>9
  <2>2. Rank(R, j) = j
    BY <1>0, <1>2, <1>4, <2>1, RankInBeginning
  <2>3. Nth(R, j) = j
    BY <1>0, <1>2, <1>4, <2>1, <2>2, NthIs
  <2> QED BY <1>0, <1>6, <2>1, <2>3
<1>12. ASSUME NEW k \in 1..(n + 1), k > j PROVE z[k] = s[k - 1]
  <2> DEFINE i == Nth(S, k - 1)
  <2>1. k - 1 \in 1..n /\ k \in Nat /\ k - 1 >= j
    BY <1>0, <1>1, <1>12
  <2>2. i \in S /\ Rank(S, i) = k - 1
    BY <1>0, <1>7, <2>1
  <2> HIDE DEF i
  <2>3. i > j
    <3>1. i \in Nat /\ i # 0 /\ i # j
      BY <1>0, <2>2
    <3>2. ASSUME i < j PROVE FALSE
      <4>1. 1..i \subseteq S
        BY <1>0, <3>1, <3>2
      <4>2. Rank(S, i) = i
        BY <1>0, <3>1, <4>1, RankInBeginning
      <4> QED BY <1>0, <2>1, <2>2, <3>1, <3>2, <4>2
    <3> QED BY <1>0, <3>1, <3>2
  <2>4. Rank(R, i) = k
    <3> DEFINE U == {x \in S : x <= i}
    <3>1. {x \in R : x <= i} = U \cup {j}
      BY <1>0, <2>2, <2>3
    <3>2. IsFiniteSet(U) /\ j \notin U
      BY <1>0, FS_Subset
    <3>3. Cardinality(U \cup {j}) = Cardinality(U) + 1
      <4> HIDE DEF U
      <4> QED BY <1>0, <3>2, FS_AddElement
    <3>4. Cardinality(U) = k - 1
      BY <1>0, <2>2 DEF Rank
    <3> HIDE DEF U
    <3> QED BY <1>0, <2>1, <3>1, <3>3, <3>4 DEF Rank
  <2>5. Nth(R, k) = i
    BY <1>0, <1>2, <1>4, <2>2, <2>4, NthIs
  <2> QED BY <1>0, <1>5, <1>6, <2>1, <2>2, <2>5 DEF i
<1>13. z = Inserted(s, j, g[j])
  <2>1. DOMAIN z = 1..(n + 1) /\ z = [k \in DOMAIN z |-> z[k]]
    BY <1>0, <1>6
  <2>2. \A k \in 1..(n + 1) : z[k] = IF k < j THEN s[k] ELSE IF k = j THEN g[j] ELSE s[k - 1]
    <3> HIDE DEF z, s
    <3> SUFFICES ASSUME NEW k \in 1..(n + 1)
                 PROVE  z[k] = IF k < j THEN s[k] ELSE IF k = j THEN g[j] ELSE s[k - 1]
      BY <1>0
    <3>1. k < j => k \in 1..(j - 1)
      BY <1>0, <1>1
    <3> QED BY <1>0, <1>1, <1>10, <1>11, <1>12, <3>1
  <2> HIDE DEF z, s
  <2> QED BY <1>0, <1>8, <2>1, <2>2 DEF Inserted
<1> QED BY <1>0, <1>1, <1>8, <1>9, <1>13

-----------------------------------------------------------------------------
(* The alignment matches an item with one item at most.                     *)

\* Each item is paired with one item at most.
Matched(o, t, pairs) ==
    /\ pairs \subseteq (DOMAIN o) \X (DOMAIN t)
    /\ \A p, q \in pairs : p[1] = q[1] \/ p[2] = q[2] => p = q

\* Two copies of one text are not the same copy of it.
LEMMA CopyTells ==
    ASSUME NEW X, NEW s \in Seq(X), NEW i \in DOMAIN s, NEW k \in DOMAIN s,
           NormOf[s[i]] = NormOf[s[k]], Copy(s, i) = Copy(s, k)
    PROVE  i = k
<1>1. ASSUME NEW x \in DOMAIN s, NEW y \in DOMAIN s, NormOf[s[x]] = NormOf[s[y]], x < y
      PROVE  Copy(s, x) < Copy(s, y)
  <2> DEFINE A == {z \in 1..x : NormOf[s[z]] = NormOf[s[x]]}
             B == {z \in 1..y : NormOf[s[z]] = NormOf[s[y]]}
  <2>1. x \in Nat /\ y \in Nat /\ y >= 1
    OBVIOUS
  <2>2. IsFiniteSet(B)
    <3>1. IsFiniteSet(1..y)
      BY <2>1, FS_Interval
    <3> QED BY <3>1, FS_Subset
  <2>3. 1..x \subseteq 1..y /\ y \in 1..y /\ y \notin 1..x
    BY <1>1, <2>1
  <2>4. A \in SUBSET B
    <3>1. \A z \in 1..x : z \in 1..y
      BY <2>3
    <3>2. NormOf[s[x]] = NormOf[s[y]]
      BY <1>1
    <3> QED BY <3>1, <3>2
  <2>5. y \in B /\ y \notin A
    BY <2>3
  <2>6. Cardinality(A) < Cardinality(B)
    <3> HIDE DEF A, B
    <3> QED BY <2>2, <2>4, <2>5, Fewer
  <2> QED BY <2>6 DEF Copy
<1>2. \A x \in DOMAIN s : Copy(s, x) \in Nat
  <2> SUFFICES ASSUME NEW x \in DOMAIN s PROVE Copy(s, x) \in Nat
    OBVIOUS
  <2>1. IsFiniteSet(1..x)
    BY x \in Nat, FS_Interval
  <2>2. IsFiniteSet({z \in 1..x : NormOf[s[z]] = NormOf[s[x]]})
    BY <2>1, FS_Subset
  <2> QED BY <2>2, FS_CardinalityType DEF Copy
<1>3. Copy(s, i) \in Nat /\ Copy(s, k) \in Nat /\ i \in Nat /\ k \in Nat
  BY <1>2
<1>4. ~(i < k) /\ ~(k < i)
  BY <1>1, <1>3
<1> QED BY <1>3, <1>4

\* The exact matches are a matching: the first copy meets the first, the second the second.
LEMMA ExactMatched ==
    ASSUME NEW o \in Seq(Bullets), NEW t \in Seq(Bullets)
    PROVE  Matched(o, t, Exact(o, t))
<1> SUFFICES ASSUME NEW p \in Exact(o, t), NEW q \in Exact(o, t), p[1] = q[1] \/ p[2] = q[2]
             PROVE  p = q
  BY DEF Matched, Exact
<1>1. /\ p = <<p[1], p[2]>> /\ p[1] \in DOMAIN o /\ p[2] \in DOMAIN t
      /\ q = <<q[1], q[2]>> /\ q[1] \in DOMAIN o /\ q[2] \in DOMAIN t
  BY DEF Exact
<1>2. /\ NormOf[o[p[1]]] = NormOf[t[p[2]]] /\ Copy(o, p[1]) = Copy(t, p[2])
      /\ NormOf[o[q[1]]] = NormOf[t[q[2]]] /\ Copy(o, q[1]) = Copy(t, q[2])
  BY DEF Exact
<1>3. CASE p[1] = q[1]
  <2>1. NormOf[t[p[2]]] = NormOf[t[q[2]]] /\ Copy(t, p[2]) = Copy(t, q[2])
    BY <1>2, <1>3
  <2>2. p[2] = q[2]
    BY <1>1, <2>1, CopyTells
  <2> QED BY <1>1, <1>3, <2>2
<1>4. CASE p[2] = q[2]
  <2>1. NormOf[o[p[1]]] = NormOf[o[q[1]]] /\ Copy(o, p[1]) = Copy(o, q[1])
    BY <1>2, <1>4
  <2>2. p[1] = q[1]
    BY <1>1, <2>1, CopyTells
  <2> QED BY <1>1, <1>4, <2>2
<1> QED BY <1>3, <1>4

\* More of what was left over
LEMMA MoreMatched ==
    ASSUME NEW o, NEW t, NEW pairs, Matched(o, t, pairs), NEW more, Matched(o, t, more),
           more \subseteq FreeOf(o, pairs) \X FreeTo(t, pairs)
    PROVE  Matched(o, t, pairs \cup more)
<1>1. pairs \cup more \subseteq (DOMAIN o) \X (DOMAIN t)
  BY DEF Matched
<1>2. \A p \in pairs, q \in more : p[1] # q[1] /\ p[2] # q[2]
  BY DEF FreeOf, FreeTo
<1> QED BY <1>1, <1>2 DEF Matched

\* A sequence has the numbers up to its length for its places.
LEMMA SeqDomain ==
    ASSUME NEW X, NEW s \in Seq(X)
    PROVE  /\ DOMAIN s = 1..Len(s) /\ DOMAIN s \in SUBSET (Nat \ {0}) /\ IsFiniteSet(DOMAIN s)
           /\ Len(s) \in Nat /\ Cardinality(DOMAIN s) = Len(s)
<1>1. PICK n \in Nat : n = Len(s) /\ DOMAIN s = 1..n
  OBVIOUS
<1>2. IsFiniteSet(1..n) /\ Cardinality(1..n) = n
  BY FS_Interval
<1> QED BY <1>1, <1>2

\* What is left is matched by rank: each with one, and none that was matched before.
LEMMA PositionalMatched ==
    ASSUME NEW o \in Seq(Bullets), NEW t \in Seq(Bullets), NEW pairs, Matched(o, t, pairs)
    PROVE  Matched(o, t, Positional(o, t, pairs))
<1> DEFINE from == FreeOf(o, pairs)
           to == FreeTo(t, pairs)
           more == {p \in from \X to : Rank(from, p[1]) = Rank(to, p[2])}
<1>1. from \in SUBSET DOMAIN o /\ to \in SUBSET DOMAIN t
  BY DEF FreeOf, FreeTo
<1>2. DOMAIN o \in SUBSET Nat /\ IsFiniteSet(DOMAIN o)
      /\ DOMAIN t \in SUBSET Nat /\ IsFiniteSet(DOMAIN t)
  BY SeqDomain
<1>3. from \in SUBSET Nat /\ IsFiniteSet(from) /\ to \in SUBSET Nat /\ IsFiniteSet(to)
  BY <1>1, <1>2, FS_Subset
<1>3a. /\ \A x, y \in from : Rank(from, x) = Rank(from, y) => x = y
       /\ \A x, y \in to : Rank(to, x) = Rank(to, y) => x = y
  <2> HIDE DEF from, to
  <2> QED BY <1>3, RankTells
<1>4. ASSUME NEW p \in more, NEW q \in more, p[1] = q[1] \/ p[2] = q[2]
      PROVE  p = q
  <2> HIDE DEF from, to
  <2>1. /\ p = <<p[1], p[2]>> /\ p[1] \in from /\ p[2] \in to
        /\ q = <<q[1], q[2]>> /\ q[1] \in from /\ q[2] \in to
        /\ Rank(from, p[1]) = Rank(to, p[2]) /\ Rank(from, q[1]) = Rank(to, q[2])
    OBVIOUS
  <2>2. CASE p[1] = q[1]
    <3>1. Rank(to, p[2]) = Rank(to, q[2])
      BY <2>1, <2>2
    <3>2. p[2] = q[2]
      BY <1>3a, <2>1, <3>1
    <3> QED BY <2>1, <2>2, <3>2
  <2>3. CASE p[2] = q[2]
    <3>1. Rank(from, p[1]) = Rank(from, q[1])
      BY <2>1, <2>3
    <3>2. p[1] = q[1]
      BY <1>3a, <2>1, <3>1
    <3> QED BY <2>1, <2>3, <3>2
  <2> QED BY <1>4, <2>2, <2>3
<1>5. more \subseteq from \X to
  OBVIOUS
<1>6. Matched(o, t, more)
  <2> HIDE DEF more, from, to
  <2> QED BY <1>1, <1>4, <1>5 DEF Matched
<1>7. Positional(o, t, pairs) = pairs \cup more
  BY DEF Positional
<1> HIDE DEF more
<1> QED BY <1>5, <1>6, <1>7, MoreMatched

\* The lexicographic order of four numbers, the first one downwards
Earlier(a, d, i, j, b, e, k, l) ==
    \/ a > b
    \/ a = b /\ d < e
    \/ a = b /\ d = e /\ i < k
    \/ a = b /\ d = e /\ i = k /\ j < l

\* That order is transitive.
LEMMA EarlierGoesOn ==
    ASSUME NEW a \in Nat, NEW d \in Nat, NEW i \in Nat, NEW j \in Nat,
           NEW b \in Nat, NEW e \in Nat, NEW k \in Nat, NEW l \in Nat,
           NEW c \in Nat, NEW f \in Nat, NEW m \in Nat, NEW n \in Nat,
           Earlier(a, d, i, j, b, e, k, l), Earlier(b, e, k, l, c, f, m, n)
    PROVE  Earlier(a, d, i, j, c, f, m, n)
<1>1. CASE a > b \/ b > c
  BY <1>1 DEF Earlier
<1>2. CASE a = b /\ b = c
  BY <1>2 DEF Earlier
<1> QED BY <1>1, <1>2 DEF Earlier

\* It tells any two places apart that differ in the last two numbers.
LEMMA EarlierTells ==
    ASSUME NEW a \in Nat, NEW d \in Nat, NEW i \in Nat, NEW j \in Nat,
           NEW b \in Nat, NEW e \in Nat, NEW k \in Nat, NEW l \in Nat
    PROVE  i # k \/ j # l => Earlier(a, d, i, j, b, e, k, l) \/ Earlier(b, e, k, l, a, d, i, j)
  BY DEF Earlier

\* Before is a strict order, in which any two pairs follow each other.
LEMMA BeforeOrder ==
    ASSUME NEW o \in Seq(Bullets), NEW t \in Seq(Bullets),
           NEW p \in (DOMAIN o) \X (DOMAIN t), NEW q \in (DOMAIN o) \X (DOMAIN t),
           NEW r \in (DOMAIN o) \X (DOMAIN t)
    PROVE  /\ ~Before(o, t, p, p)
           /\ Before(o, t, p, q) /\ Before(o, t, q, r) => Before(o, t, p, r)
           /\ p # q => Before(o, t, p, q) \/ Before(o, t, q, p)
<1>1. ASSUME NEW x \in (DOMAIN o) \X (DOMAIN t)
      PROVE  /\ x = <<x[1], x[2]>> /\ x[1] \in Nat /\ x[2] \in Nat
             /\ Apart(x) \in Nat /\ Alike(o, t, x) \in Nat
  <2>1. x = <<x[1], x[2]>> /\ x[1] \in DOMAIN o /\ x[2] \in DOMAIN t
    OBVIOUS
  <2>2. x[1] \in Nat /\ x[2] \in Nat /\ o[x[1]] \in Bullets /\ t[x[2]] \in Bullets
    BY <2>1
  <2>3. NormOf[o[x[1]]] \in Bullets /\ NormOf[t[x[2]]] \in Bullets
    BY <2>2, TextAssumption
  <2>4. Alike(o, t, x) \in Nat
    <3>1. PICK y \in Bullets, z \in Bullets : y = NormOf[o[x[1]]] /\ z = NormOf[t[x[2]]]
      BY <2>3
    <3>2. Ratio[<<y, z>>] \in Nat
      BY TextAssumption
    <3> QED BY <3>1, <3>2 DEF Alike
  <2> QED BY <2>1, <2>2, <2>4 DEF Apart
<1>2. ASSUME NEW x, NEW y
      PROVE  Before(o, t, x, y) <=> Earlier(Alike(o, t, x), Apart(x), x[1], x[2],
                                            Alike(o, t, y), Apart(y), y[1], y[2])
  BY DEF Before, Earlier
<1>3. /\ p[1] \in Nat /\ p[2] \in Nat /\ Apart(p) \in Nat /\ Alike(o, t, p) \in Nat
      /\ q[1] \in Nat /\ q[2] \in Nat /\ Apart(q) \in Nat /\ Alike(o, t, q) \in Nat
      /\ r[1] \in Nat /\ r[2] \in Nat /\ Apart(r) \in Nat /\ Alike(o, t, r) \in Nat
  BY <1>1
<1>4. PICK a \in Nat, b \in Nat, c \in Nat, d \in Nat, e \in Nat, f \in Nat :
        /\ a = Alike(o, t, p) /\ b = Alike(o, t, q) /\ c = Alike(o, t, r)
        /\ d = Apart(p) /\ e = Apart(q) /\ f = Apart(r)
  BY <1>3
<1>5. PICK i \in Nat, j \in Nat, k \in Nat, l \in Nat, m \in Nat, n \in Nat :
        /\ i = p[1] /\ j = p[2] /\ k = q[1] /\ l = q[2] /\ m = r[1] /\ n = r[2]
  BY <1>3
<1>6. /\ Before(o, t, p, p) <=> Earlier(a, d, i, j, a, d, i, j)
      /\ Before(o, t, p, q) <=> Earlier(a, d, i, j, b, e, k, l)
      /\ Before(o, t, q, p) <=> Earlier(b, e, k, l, a, d, i, j)
      /\ Before(o, t, q, r) <=> Earlier(b, e, k, l, c, f, m, n)
      /\ Before(o, t, p, r) <=> Earlier(a, d, i, j, c, f, m, n)
  BY <1>2, <1>4, <1>5
<1>7. p # q => i # k \/ j # l
  BY <1>5, p = <<p[1], p[2]>>, q = <<q[1], q[2]>>
<1>8. ~Earlier(a, d, i, j, a, d, i, j)
  BY DEF Earlier
<1>9. i # k \/ j # l => Earlier(a, d, i, j, b, e, k, l) \/ Earlier(b, e, k, l, a, d, i, j)
  BY EarlierTells
<1>10. Earlier(a, d, i, j, b, e, k, l) /\ Earlier(b, e, k, l, c, f, m, n)
         => Earlier(a, d, i, j, c, f, m, n)
  BY EarlierGoesOn
<1> QED BY <1>6, <1>7, <1>8, <1>9, <1>10

\* No two pairs have the same turn.
LEMMA TurnTells ==
    ASSUME NEW o \in Seq(Bullets), NEW t \in Seq(Bullets),
           NEW S \in SUBSET ((DOMAIN o) \X (DOMAIN t)), IsFiniteSet(S),
           NEW p \in S, NEW q \in S, Turn(o, t, S, p) = Turn(o, t, S, q)
    PROVE  p = q
<1>1. ASSUME NEW x \in S, NEW y \in S, Before(o, t, x, y)
      PROVE  Turn(o, t, S, x) # Turn(o, t, S, y)
  <2> DEFINE A == {z \in S : Before(o, t, z, x)}
             B == {z \in S : Before(o, t, z, y)}
  <2>1. IsFiniteSet(B)
    BY FS_Subset
  <2>2. A \in SUBSET B
    <3> SUFFICES ASSUME NEW z \in S, Before(o, t, z, x) PROVE Before(o, t, z, y)
      OBVIOUS
    <3> QED BY <1>1, BeforeOrder
  <2>3. x \in B /\ x \notin A
    BY <1>1, BeforeOrder
  <2>4. /\ Cardinality(A) \in Nat /\ Cardinality(B) \in Nat
        /\ Cardinality(A) < Cardinality(B)
    <3> HIDE DEF A, B
    <3> QED BY <2>1, <2>2, <2>3, Fewer
  <2>5. Turn(o, t, S, x) = Cardinality(A) + 1 /\ Turn(o, t, S, y) = Cardinality(B) + 1
    BY DEF Turn
  <2> HIDE DEF A, B
  <2> QED BY <2>4, <2>5
<1> QED BY <1>1, BeforeOrder

\* Taking by turn, as a function on the numbers
Takes(h, o, t, S) ==
    h = [n \in Nat |->
          IF n = 0 THEN {}
          ELSE LET so == h[n - 1] IN
               so \cup {p \in S : /\ Turn(o, t, S, p) = n
                                  /\ \A q \in so : q[1] # p[1] /\ q[2] # p[2]}]

\* There is a function that takes in turns, and Taken is its last value.
LEMMA TakenIs ==
    ASSUME NEW o, NEW t, NEW S
    PROVE  \E h : Takes(h, o, t, S) /\ Taken(o, t, S) = h[Cardinality(S)]
<1> DEFINE X == SUBSET S
           new(so, n) == {p \in S : /\ Turn(o, t, S, p) = n
                                    /\ \A q \in so : q[1] # p[1] /\ q[2] # p[2]}
           F == [z \in X \X Nat |-> z[1] \cup new(z[1], z[2])]
<1>1. F \in [X \X Nat -> X]
  OBVIOUS
<1>2. PICK f \in [Nat -> X] : Follows(f, {}, F)
  <2> HIDE DEF F, X
  <2>1. {} \in X
    BY DEF X
  <2> QED BY <1>1, <2>1, Recursion
<1>3. Takes(f, o, t, S)
  <2>1. ASSUME NEW n \in Nat
        PROVE  f[n] = IF n = 0 THEN {} ELSE f[n - 1] \cup new(f[n - 1], n)
    <3>1. CASE n = 0
      BY <1>2, <3>1 DEF Follows
    <3>2. CASE n # 0
      <4>1. n - 1 \in Nat /\ (n - 1) + 1 = n
        BY <3>2
      <4>2. f[n] = F[<<f[n - 1], n>>]
        BY <1>2, <4>1 DEF Follows
      <4>3. <<f[n - 1], n>> \in X \X Nat
        BY <4>1
      <4> QED BY <3>2, <4>2, <4>3
    <3> QED BY <3>1, <3>2
  <2> QED BY <2>1 DEF Takes
<1>4. Taken(o, t, S) = (CHOOSE h : Takes(h, o, t, S))[Cardinality(S)]
  BY DEF Taken, Takes
<1>5. Takes((CHOOSE h : Takes(h, o, t, S)), o, t, S)
  BY <1>3
<1> QED BY <1>4, <1>5

\* What was taken from a set of pairs is a matching: no turn takes a pair that shares an item
\* with a pair that was taken.
LEMMA TakenMatched ==
    ASSUME NEW o \in Seq(Bullets), NEW t \in Seq(Bullets),
           NEW S \in SUBSET ((DOMAIN o) \X (DOMAIN t)), IsFiniteSet(S)
    PROVE  Taken(o, t, S) \in SUBSET S /\ Matched(o, t, Taken(o, t, S))
<1>1. PICK h : Takes(h, o, t, S) /\ Taken(o, t, S) = h[Cardinality(S)]
  BY TakenIs
<1>2. h[0] = {}
  BY <1>1 DEF Takes
<1>3. ASSUME NEW n \in Nat
      PROVE  h[n + 1] = h[n] \cup {p \in S : /\ Turn(o, t, S, p) = n + 1
                                             /\ \A q \in h[n] : q[1] # p[1] /\ q[2] # p[2]}
  <2>1. n + 1 \in Nat /\ n + 1 # 0 /\ (n + 1) - 1 = n
    OBVIOUS
  <2> QED BY <1>1, <2>1 DEF Takes
<1> DEFINE T == {n \in Nat : h[n] \in SUBSET S /\ Matched(o, t, h[n])}
<1>4. 0 \in T
  BY <1>2 DEF Matched
<1>5. ASSUME NEW n \in Nat, n \in T PROVE n + 1 \in T
  <2> DEFINE new == {p \in S : /\ Turn(o, t, S, p) = n + 1
                               /\ \A q \in h[n] : q[1] # p[1] /\ q[2] # p[2]}
  <2>1. h[n + 1] = h[n] \cup new
    BY <1>3
  <2>2. \A p, q \in new : p = q
    BY TurnTells
  <2>3. \A p \in new, q \in h[n] : q[1] # p[1] /\ q[2] # p[2]
    OBVIOUS
  <2>4. h[n] \in SUBSET S /\ Matched(o, t, h[n]) /\ new \in SUBSET S
    BY <1>5
  <2> HIDE DEF new
  <2>5. \A p, q \in h[n] \cup new : p[1] = q[1] \/ p[2] = q[2] => p = q
    BY <2>2, <2>3, <2>4 DEF Matched
  <2>6. Matched(o, t, h[n] \cup new)
    BY <2>4, <2>5 DEF Matched
  <2>7. h[n + 1] \in SUBSET S
    BY <2>1, <2>4
  <2>8. Matched(o, t, h[n + 1])
    BY <2>1, <2>6
  <2> QED BY <2>7, <2>8
<1> HIDE DEF T
<1>6. \A n \in Nat : n \in T
  BY <1>4, <1>5, SetInduction
<1>7. Cardinality(S) \in Nat
  BY FS_CardinalityType
<1> QED BY <1>1, <1>6, <1>7 DEF T

\* _align_list matches an original item with one tailored item at most, and a tailored
\* item with one original item at most (resume_tailor.py:517-569).
THEOREM PairsMatched ==
    ASSUME NEW o \in Seq(Bullets), NEW t \in Seq(Bullets)
    PROVE  Matched(o, t, Pairs(o, t))
<1> DEFINE exact == Exact(o, t)
           likely == Likely(o, t, exact)
<1>1. Matched(o, t, exact)
  BY ExactMatched
<1>2. likely \in SUBSET ((DOMAIN o) \X (DOMAIN t))
      /\ likely \subseteq FreeOf(o, exact) \X FreeTo(t, exact)
  BY DEF Likely, FreeOf, FreeTo
<1>3. IsFiniteSet(likely)
  <2>1. IsFiniteSet((DOMAIN o) \X (DOMAIN t))
    BY SeqDomain, FS_Product
  <2> QED BY <1>2, <2>1, FS_Subset
<1> HIDE DEF exact, likely
<1>4. Taken(o, t, likely) \in SUBSET likely /\ Matched(o, t, Taken(o, t, likely))
  BY <1>2, <1>3, TakenMatched
<1>5. Taken(o, t, likely) \subseteq FreeOf(o, exact) \X FreeTo(t, exact)
  BY <1>2, <1>4
<1>6. Matched(o, t, exact \cup Taken(o, t, likely))
  BY <1>1, <1>4, <1>5, MoreMatched
<1>7. Matched(o, t, Fuzzy(o, t, exact))
  BY <1>6 DEF Fuzzy, likely
<1> QED BY <1>7, PositionalMatched DEF Pairs, exact

-----------------------------------------------------------------------------
(* What is printed                                                          *)

\* In a matching an item's partner is the one it is paired with.
LEMMA PartnerOf ==
    ASSUME NEW o, NEW t, NEW pairs, Matched(o, t, pairs), NEW p \in pairs
    PROVE  (CHOOSE q \in pairs : q[1] = p[1]) = p /\ (CHOOSE q \in pairs : q[2] = p[2]) = p
  BY DEF Matched

\* What is printed for an original item is its own text or its partner's.
LEMMA SaysType ==
    ASSUME NEW o \in Seq(Bullets), NEW t \in Seq(Bullets), NEW pairs, Matched(o, t, pairs),
           NEW dec, NEW i \in DOMAIN o
    PROVE  Says(o, t, pairs, dec, i) \in Bullets
<1>1. o[i] \in Bullets
  OBVIOUS
<1>2. ASSUME i \notin FreeOf(o, pairs)
      PROVE  t[(CHOOSE p \in pairs : p[1] = i)[2]] \in Bullets
  <2>1. PICK p \in pairs : p[1] = i
    BY <1>2 DEF FreeOf
  <2>2. (CHOOSE q \in pairs : q[1] = i) = p
    BY <2>1, PartnerOf
  <2>3. p[2] \in DOMAIN t
    BY DEF Matched
  <2>4. t[p[2]] \in Bullets
    BY <2>3
  <2> QED BY <2>2, <2>4
<1> QED BY <1>1, <1>2 DEF Says

\* The items that are still there are some of the original ones.
LEMMA AliveType ==
    ASSUME NEW o \in Seq(Bullets), NEW pairs, NEW dec
    PROVE  Alive(o, pairs, dec) \in SUBSET DOMAIN o /\ Alive(o, pairs, dec) \in SUBSET Nat
           /\ IsFiniteSet(Alive(o, pairs, dec))
<1>1. Alive(o, pairs, dec) \in SUBSET DOMAIN o
  BY DEF Alive
<1> QED BY <1>1, SeqDomain, FS_Subset

\* A list of values of X
LEMMA ListedType ==
    ASSUME NEW X, NEW f, DOMAIN f \in SUBSET Nat, IsFiniteSet(DOMAIN f),
           \A i \in DOMAIN f : f[i] \in X
    PROVE  Listed(f) \in Seq(X)
<1> DEFINE n == Cardinality(DOMAIN f)
<1>1. n \in Nat
  BY FS_CardinalityType
<1>2. \A k \in 1..n : f[Nth(DOMAIN f, k)] \in X
  BY NthIs
<1> HIDE DEF n
<1>3. [k \in 1..n |-> f[Nth(DOMAIN f, k)]] \in Seq(X)
  BY <1>1, <1>2
<1> QED BY <1>3 DEF Listed, n

\* The items that are still there are listed each once, with what each says.
LEMMA ItemsAre ==
    ASSUME NEW o \in Seq(Bullets), NEW t \in Seq(Bullets), NEW pairs, Matched(o, t, pairs),
           NEW dec
    PROVE  /\ Items(o, t, pairs, dec) \in Seq(Bullets)
           /\ \A x : Times(Items(o, t, pairs, dec), x) =
                       Cardinality({i \in Alive(o, pairs, dec) : Says(o, t, pairs, dec, i) = x})
<1> DEFINE S == Alive(o, pairs, dec)
           f == [i \in S |-> Says(o, t, pairs, dec, i)]
<1>1. S \in SUBSET DOMAIN o /\ S \in SUBSET Nat /\ IsFiniteSet(S)
  BY AliveType
<1>2. \A i \in S : Says(o, t, pairs, dec, i) \in Bullets
  BY <1>1, SaysType
<1>3. Items(o, t, pairs, dec) = Listed(f)
  BY DEF Items
<1>4. DOMAIN f = S /\ \A i \in S : f[i] = Says(o, t, pairs, dec, i)
  OBVIOUS
<1>5. Listed(f) \in Seq(Bullets)
  <2>1. DOMAIN f \in SUBSET Nat /\ IsFiniteSet(DOMAIN f) /\ \A i \in DOMAIN f : f[i] \in Bullets
    BY <1>1, <1>2, <1>4
  <2> HIDE DEF f, S
  <2> QED BY <2>1, ListedType
<1>6. ASSUME NEW x
      PROVE  Times(Listed(f), x) = Cardinality({i \in S : Says(o, t, pairs, dec, i) = x})
  <2>1. Times(Listed(f), x) = Cardinality({i \in DOMAIN f : f[i] = x})
    <3> HIDE DEF f, S
    <3> QED BY <1>1, <1>4, ListedTimes
  <2>2. {i \in DOMAIN f : f[i] = x} = {i \in S : Says(o, t, pairs, dec, i) = x}
    BY <1>4
  <2> QED BY <2>1, <2>2
<1> QED BY <1>3, <1>5, <1>6

\* Insertion of what is new, as a function on the numbers
Grows(h, o, t, pairs, dec) ==
    h = [j \in Nat |->
          IF j = 0 THEN Items(o, t, pairs, dec)
          ELSE LET so == h[j - 1] IN
               IF j \in New(t, pairs, dec)
               THEN InsertAt(so, IF j <= Len(so) THEN j ELSE Len(so) + 1, t[j])
               ELSE so]

\* There is a function that inserts the new items one after the other, and InOldOrder is its
\* value at the last place.
LEMMA InOldOrderIs ==
    ASSUME NEW o \in Seq(Bullets), NEW t \in Seq(Bullets), NEW pairs, Matched(o, t, pairs),
           NEW dec
    PROVE  \E h : Grows(h, o, t, pairs, dec) /\ InOldOrder(o, t, pairs, dec) = h[Len(t)]
<1> DEFINE X == Seq(Bullets)
           a == Items(o, t, pairs, dec)
           N == New(t, pairs, dec)
           step(so, j) == IF j \in N
                          THEN InsertAt(so, IF j <= Len(so) THEN j ELSE Len(so) + 1, t[j])
                          ELSE so
           F == [z \in X \X Nat |-> step(z[1], z[2])]
<1>1. a \in X
  BY ItemsAre
<1>2. ASSUME NEW so \in X, NEW j \in Nat PROVE step(so, j) \in X
  <2>1. CASE j \notin N
    BY <2>1
  <2>2. CASE j \in N
    <3>1. j \in DOMAIN t
      BY <2>2 DEF New, FreeTo
    <3>2. j >= 1 /\ t[j] \in Bullets
      BY <3>1
    <3> DEFINE p == IF j <= Len(so) THEN j ELSE Len(so) + 1
    <3>3. p \in 1..(Len(so) + 1)
      BY <3>2
    <3> HIDE DEF p
    <3>4. InsertAt(so, p, t[j]) \in X
      BY <3>2, <3>3, InsertAtIs
    <3> QED BY <2>2, <3>4 DEF p
  <2> QED BY <2>1, <2>2
<1>3. F \in [X \X Nat -> X]
  BY <1>2
<1>4. PICK f \in [Nat -> X] : Follows(f, a, F)
  <2> HIDE DEF F, X, a
  <2> QED BY <1>1, <1>3, Recursion
<1>5. Grows(f, o, t, pairs, dec)
  <2>1. ASSUME NEW j \in Nat PROVE f[j] = IF j = 0 THEN a ELSE step(f[j - 1], j)
    <3>1. CASE j = 0
      BY <1>4, <3>1 DEF Follows
    <3>2. CASE j # 0
      <4>1. j - 1 \in Nat /\ (j - 1) + 1 = j
        BY <3>2
      <4>2. f[j] = F[<<f[j - 1], j>>]
        BY <1>4, <4>1 DEF Follows
      <4>3. <<f[j - 1], j>> \in X \X Nat
        BY <4>1
      <4> HIDE DEF X
      <4> QED BY <3>2, <4>2, <4>3
    <3> QED BY <3>1, <3>2
  <2> QED BY <2>1 DEF Grows
<1>6. InOldOrder(o, t, pairs, dec) = (CHOOSE h : Grows(h, o, t, pairs, dec))[Len(t)]
  BY DEF InOldOrder, Grows
<1>7. Grows((CHOOSE h : Grows(h, o, t, pairs, dec)), o, t, pairs, dec)
  BY <1>5
<1> QED BY <1>6, <1>7

\* The two cases of such a function, with its place to insert at spelled out
LEMMA GrowsSteps ==
    ASSUME NEW o, NEW t, NEW pairs, NEW dec, NEW h, Grows(h, o, t, pairs, dec)
    PROVE  /\ h[0] = Items(o, t, pairs, dec)
           /\ \A j \in Nat : h[j + 1] =
                IF j + 1 \in New(t, pairs, dec)
                THEN InsertAt(h[j], IF j + 1 <= Len(h[j]) THEN j + 1 ELSE Len(h[j]) + 1, t[j + 1])
                ELSE h[j]
<1>1. h[0] = Items(o, t, pairs, dec)
  BY DEF Grows
<1>2. ASSUME NEW j \in Nat
      PROVE  h[j + 1] =
                IF j + 1 \in New(t, pairs, dec)
                THEN InsertAt(h[j], IF j + 1 <= Len(h[j]) THEN j + 1 ELSE Len(h[j]) + 1, t[j + 1])
                ELSE h[j]
  <2>1. j + 1 \in Nat /\ j + 1 # 0 /\ (j + 1) - 1 = j
    OBVIOUS
  <2> QED BY <2>1 DEF Grows
<1> QED BY <1>1, <1>2

\* In the original order each item and each addition is what its own decision alone makes
\* of it, and is there once.
LEMMA OldOrderAsDecided ==
    ASSUME NEW o \in Seq(Bullets), NEW t \in Seq(Bullets), NEW pairs, Matched(o, t, pairs),
           NEW dec
    PROVE  AsDecided(o, t, pairs, dec, InOldOrder(o, t, pairs, dec))
<1>1. PICK h : Grows(h, o, t, pairs, dec) /\ InOldOrder(o, t, pairs, dec) = h[Len(t)]
  BY InOldOrderIs
<1> SUFFICES ASSUME NEW x \in Bullets
             PROVE  Times(h[Len(t)], x) = Wanted(o, t, pairs, dec, x)
  BY <1>1 DEF AsDecided
<1> DEFINE N == New(t, pairs, dec)
           c == Cardinality({i \in Alive(o, pairs, dec) : Says(o, t, pairs, dec, i) = x})
           U(j) == {k \in N : k <= j /\ t[k] = x}
           T == {j \in Nat : /\ h[j] \in Seq(Bullets)
                             /\ Times(h[j], x) = c + Cardinality(U(j))}
<1>2. N \in SUBSET DOMAIN t /\ IsFiniteSet(N) /\ \A k \in N : k \in Nat \ {0} /\ t[k] \in Bullets
  <2>1. N \in SUBSET DOMAIN t
    BY DEF New, FreeTo
  <2>2. IsFiniteSet(N)
    BY <2>1, SeqDomain, FS_Subset
  <2> QED BY <2>1, <2>2, SeqDomain
<1>3. c \in Nat
  <2>1. IsFiniteSet({i \in Alive(o, pairs, dec) : Says(o, t, pairs, dec, i) = x})
    BY AliveType, FS_Subset
  <2> QED BY <2>1, FS_CardinalityType
<1>4. ASSUME NEW j \in Nat PROVE IsFiniteSet(U(j)) /\ Cardinality(U(j)) \in Nat
  <2>1. IsFiniteSet(U(j))
    BY <1>2, FS_Subset
  <2> QED BY <2>1, FS_CardinalityType
<1>5. 0 \in T
  <2>1. h[0] \in Seq(Bullets) /\ Times(h[0], x) = c
    BY <1>1, GrowsSteps, ItemsAre
  <2>2. U(0) = {}
    <3> HIDE DEF N
    <3> QED BY <1>2
  <2>3. Cardinality(U(0)) = 0
    BY <2>2, FS_EmptySet
  <2> HIDE DEF c, U
  <2> QED BY <1>3, <2>1, <2>3
<1>6. ASSUME NEW j \in Nat, j \in T PROVE j + 1 \in T
  <2> DEFINE s == h[j]
             p == IF j + 1 <= Len(s) THEN j + 1 ELSE Len(s) + 1
  <2>1. s \in Seq(Bullets) /\ Times(s, x) = c + Cardinality(U(j))
    BY <1>6
  <2>2. CASE j + 1 \notin N
    <3>1. h[j + 1] = s
      BY <1>1, <2>2, GrowsSteps
    <3>2. U(j + 1) = U(j)
      <4>1. \A k \in N : k <= j + 1 <=> k <= j
        <5> HIDE DEF N
        <5> QED BY <1>2, <2>2
      <4> QED BY <4>1
    <3>3. h[j + 1] \in Seq(Bullets) /\ Times(h[j + 1], x) = c + Cardinality(U(j + 1))
      BY <2>1, <3>1, <3>2
    <3> QED BY <3>3
  <2>3. CASE j + 1 \in N
    <3>1. h[j + 1] = InsertAt(s, p, t[j + 1])
      BY <1>1, <2>3, GrowsSteps
    <3>2. Len(s) \in Nat
      BY <2>1
    <3>3. p \in 1..(Len(s) + 1) /\ t[j + 1] \in Bullets
      BY <1>2, <2>3, <3>2
    <3> DEFINE one == IF t[j + 1] = x THEN 1 ELSE 0
    <3>4. h[j + 1] \in Seq(Bullets) /\ Times(h[j + 1], x) = Times(s, x) + one
      <4> HIDE DEF p, s
      <4> QED BY <2>1, <3>1, <3>3, InsertAtIs, InsertTimes
    <3>5. U(j + 1) = IF t[j + 1] = x THEN U(j) \cup {j + 1} ELSE U(j)
      <4>1. \A k \in N : k <= j + 1 <=> k <= j \/ k = j + 1
        <5> HIDE DEF N
        <5> QED BY <1>2
      <4> HIDE DEF N
      <4> QED BY <2>3, <4>1
    <3>6. j + 1 \notin U(j)
      OBVIOUS
    <3>7. Cardinality(U(j + 1)) = Cardinality(U(j)) + one
      <4> HIDE DEF U
      <4>1. CASE t[j + 1] = x
        BY <1>4, <3>5, <3>6, <4>1, FS_AddElement
      <4>2. CASE t[j + 1] # x
        BY <1>4, <3>5, <4>2
      <4> QED BY <4>1, <4>2
    <3>8. Times(h[j + 1], x) = c + Cardinality(U(j + 1))
      <4> HIDE DEF U, c, one, s
      <4>1. one \in Nat
        BY DEF one
      <4> QED BY <1>3, <1>4, <2>1, <3>4, <3>7, <4>1
    <3> QED BY <3>4, <3>8
  <2> QED BY <2>2, <2>3
<1> HIDE DEF T
<1>7. \A j \in Nat : j \in T
  BY <1>5, <1>6, SetInduction
<1>8. Len(t) \in Nat /\ U(Len(t)) = {k \in N : t[k] = x}
  BY <1>2, SeqDomain
<1>9. Times(h[Len(t)], x) = c + Cardinality({k \in N : t[k] = x})
  BY <1>7, <1>8 DEF T
<1> QED BY <1>9 DEF Wanted

\* What is listed along an increasing map is the same list.
LEMMA ListedAlong ==
    ASSUME NEW S \in SUBSET Nat, IsFiniteSet(S), NEW R \in SUBSET Nat, NEW m \in [S -> R],
           \A x, y \in S : x < y => m[x] < m[y], \A z \in R : \E x \in S : m[x] = z,
           NEW f, DOMAIN f = S, NEW g, DOMAIN g = R, \A x \in S : f[x] = g[m[x]]
    PROVE  Listed(f) = Listed(g)
<1>1. \A x, y \in S : m[x] = m[y] => x = y
  <2> SUFFICES ASSUME NEW x \in S, NEW y \in S, m[x] = m[y] PROVE x = y
    OBVIOUS
  <2>1. x \in Nat /\ y \in Nat /\ m[x] \in Nat /\ m[y] \in Nat
    OBVIOUS
  <2>2. ~(x < y) /\ ~(y < x)
    BY <2>1
  <2> QED BY <2>1, <2>2
<1>2. IsFiniteSet(R) /\ Cardinality(R) = Cardinality(S)
  BY ONLY <1>1, IsFiniteSet(S), m \in [S -> R], \A z \in R : \E x \in S : m[x] = z, AsMany, Zenon
<1>3. ASSUME NEW x \in S PROVE Rank(R, m[x]) = Rank(S, x)
  <2> DEFINE A == {y \in S : y <= x}
             B == {z \in R : z <= m[x]}
             k == [y \in A |-> m[y]]
  <2>1. IsFiniteSet(A)
    BY FS_Subset
  <2>2. ASSUME NEW y \in S PROVE y <= x <=> m[y] <= m[x]
    <3>1. x \in Nat /\ y \in Nat /\ m[x] \in Nat /\ m[y] \in Nat
      OBVIOUS
    <3>2. y < x => m[y] < m[x]
      OBVIOUS
    <3>3. x < y => m[x] < m[y]
      OBVIOUS
    <3>4. x = y => m[x] = m[y]
      OBVIOUS
    <3> QED BY <3>1, <3>2, <3>3, <3>4
  <2>3. k \in [A -> B]
    BY <2>2
  <2>4. \A y, z \in A : k[y] = k[z] => y = z
    BY <1>1
  <2>5. \A z \in B : \E y \in A : k[y] = z
    <3> SUFFICES ASSUME NEW z \in R, z <= m[x] PROVE \E y \in A : k[y] = z
      OBVIOUS
    <3>1. PICK y \in S : m[y] = z
      OBVIOUS
    <3>2. y \in A /\ k[y] = z
      BY <2>2, <3>1
    <3> QED BY <3>2
  <2>6. Cardinality(B) = Cardinality(A)
    <3> HIDE DEF A, B, k
    <3> QED BY <2>1, <2>3, <2>4, <2>5, AsMany
  <2> QED BY <2>6 DEF Rank
<1>4. ASSUME NEW k \in 1..Cardinality(S) PROVE f[Nth(S, k)] = g[Nth(R, k)]
  <2>1. Nth(S, k) \in S /\ Rank(S, Nth(S, k)) = k
    BY NthIs
  <2>2. Rank(R, m[Nth(S, k)]) = k /\ m[Nth(S, k)] \in R
    BY <1>3, <2>1
  <2>3. Nth(R, k) = m[Nth(S, k)]
    <3>1. \A y \in R : Nth(R, Rank(R, y)) = y
      BY <1>2, NthIs
    <3> QED BY <2>2, <3>1
  <2> QED BY <2>1, <2>3
<1> QED BY <1>2, <1>4 DEF Listed

\* With nothing rejected, the items that stay in the original order are the tailored ones
\* they became, in the tailored order too.
LEMMA ItemsKept ==
    ASSUME NEW o \in Seq(Bullets), NEW t \in Seq(Bullets), NEW pairs, Matched(o, t, pairs),
           NEW dec, \A id : ~Out(dec, id), ~Moved(pairs)
    PROVE  Items(o, t, pairs, dec) = Listed([j \in DOMAIN t \ FreeTo(t, pairs) |-> t[j]])
<1> DEFINE S == Alive(o, pairs, dec)
           R == DOMAIN t \ FreeTo(t, pairs)
           with(i) == CHOOSE p \in pairs : p[1] = i
           m == [i \in S |-> with(i)[2]]
           f == [i \in S |-> Says(o, t, pairs, dec, i)]
           g == [j \in R |-> t[j]]
<1>1. S \in SUBSET Nat /\ S \in SUBSET DOMAIN o /\ IsFiniteSet(S) /\ R \in SUBSET Nat
  BY AliveType, SeqDomain
<1>2. ASSUME NEW i \in S
      PROVE  /\ with(i) \in pairs /\ with(i)[1] = i /\ with(i)[2] \in R
             /\ Says(o, t, pairs, dec, i) = t[with(i)[2]]
  <2>1. i \in DOMAIN o /\ i \notin FreeOf(o, pairs)
    BY DEF Alive
  <2>2. with(i) \in pairs /\ with(i)[1] = i
    BY <2>1 DEF FreeOf
  <2> HIDE DEF with
  <2>3. with(i)[2] \in R
    BY <2>2 DEF Matched, FreeTo
  <2> QED BY <2>1, <2>2, <2>3 DEF Says, with
<1>3. m \in [S -> R]
  BY <1>2
<1>4. ASSUME NEW x \in S, NEW y \in S, x < y PROVE m[x] < m[y]
  <2> HIDE DEF with
  <2>1. with(x) # with(y)
    BY <1>1, <1>2, <1>4
  <2>2. with(x)[2] # with(y)[2]
    BY <1>2, <2>1 DEF Matched
  <2>3. ~(with(x)[2] > with(y)[2])
    BY <1>2, <1>4 DEF Moved
  <2>4. with(x)[2] \in Nat /\ with(y)[2] \in Nat
    BY <1>1, <1>2
  <2> QED BY <2>2, <2>3, <2>4
<1>5. \A j \in R : \E i \in S : m[i] = j
  <2> SUFFICES ASSUME NEW j \in R PROVE \E i \in S : m[i] = j
    OBVIOUS
  <2>1. PICK p \in pairs : p[2] = j
    BY DEF FreeTo
  <2>2. p[1] \in DOMAIN o /\ p[1] \notin FreeOf(o, pairs)
    BY DEF Matched, FreeOf
  <2>3. p[1] \in S
    BY <2>2 DEF Alive
  <2>4. with(p[1]) = p
    BY PartnerOf
  <2>5. m[p[1]] = j
    BY <2>1, <2>3, <2>4
  <2> QED BY <2>3, <2>5
<1>6. \A x \in S : f[x] = g[m[x]]
  BY <1>2, <1>3
<1>7. DOMAIN f = S /\ DOMAIN g = R
  OBVIOUS
<1>8. Listed(f) = Listed(g)
  <2> HIDE DEF f, g, m, S, R
  <2> QED BY <1>1, <1>3, <1>4, <1>5, <1>6, <1>7, ListedAlong
<1> QED BY <1>8 DEF Items

\* Each addition goes back to its place: nothing rejected, the tailored list is there.
LEMMA OldOrderKept ==
    ASSUME NEW o \in Seq(Bullets), NEW t \in Seq(Bullets), NEW pairs, Matched(o, t, pairs),
           NEW dec, \A id : ~Out(dec, id), ~Moved(pairs)
    PROVE  InOldOrder(o, t, pairs, dec) = t
<1>1. PICK h : Grows(h, o, t, pairs, dec) /\ InOldOrder(o, t, pairs, dec) = h[Len(t)]
  BY InOldOrderIs
<1> DEFINE D == DOMAIN t
           free == FreeTo(t, pairs)
           S(j) == {k \in D : k <= j \/ k \notin free}
           L(j) == Listed([k \in S(j) |-> t[k]])
           T == {j \in Nat : j <= Len(t) => h[j] = L(j)}
<1>2. /\ D = 1..Len(t) /\ D \in SUBSET (Nat \ {0}) /\ IsFiniteSet(D) /\ Len(t) \in Nat
      /\ free \in SUBSET D /\ New(t, pairs, dec) = free
  BY SeqDomain DEF New, FreeTo
<1>3. 0 \in T
  <2>1. S(0) = D \ free
    <3>1. \A k \in D : ~(k <= 0)
      BY <1>2
    <3> QED BY <3>1
  <2>2. h[0] = Items(o, t, pairs, dec)
    BY <1>1, GrowsSteps
  <2>3. Items(o, t, pairs, dec) = Listed([k \in D \ free |-> t[k]])
    BY ItemsKept
  <2>4. h[0] = L(0)
    <3> HIDE DEF D, free, S
    <3> QED BY <2>1, <2>2, <2>3
  <2> QED BY <2>4
<1>4. ASSUME NEW j \in Nat, j \in T PROVE j + 1 \in T
  <2> SUFFICES ASSUME j + 1 <= Len(t) PROVE h[j + 1] = L(j + 1)
    OBVIOUS
  <2>1. h[j] = L(j) /\ j + 1 \in D
    BY <1>2, <1>4
  <2>2. h[j + 1] = IF j + 1 \in free
                   THEN InsertAt(h[j], IF j + 1 <= Len(h[j]) THEN j + 1 ELSE Len(h[j]) + 1, t[j + 1])
                   ELSE h[j]
    <3> HIDE DEF D, free, T
    <3> QED BY <1>1, <1>2, GrowsSteps
  <2>3. CASE j + 1 \notin free
    <3>1. S(j + 1) = S(j)
      <4>1. \A k \in D : k <= j + 1 <=> k <= j \/ k = j + 1
        BY <1>2
      <4> HIDE DEF free, D
      <4> QED BY <2>3, <4>1
    <3>2. h[j + 1] = h[j]
      BY ONLY <2>3, <2>2
    <3> QED BY <2>1, <3>1, <3>2
  <2>4. CASE j + 1 \in free
    <3> DEFINE f == [k \in S(j) |-> t[k]]
               g == [k \in S(j + 1) |-> t[k]]
    <3>1. S(j + 1) = S(j) \cup {j + 1} /\ j + 1 \notin S(j)
      <4>1. \A k \in D : k <= j + 1 <=> k <= j \/ k = j + 1
        BY <1>2
      <4>2. ~(j + 1 <= j)
        OBVIOUS
      <4> HIDE DEF free, D
      <4> QED BY <2>1, <2>4, <4>1, <4>2
    <3>2. S(j) \in SUBSET (Nat \ {0}) /\ IsFiniteSet(S(j)) /\ j + 1 \in Nat \ {0}
      <4>1. S(j) \in SUBSET D
        OBVIOUS
      <4> HIDE DEF D, S
      <4> QED BY <1>2, <4>1, FS_Subset
    <3>3. 1..((j + 1) - 1) \subseteq S(j)
      <4>1. \A k \in 1..j : k \in D /\ k <= j
        BY <1>2
      <4>2. (j + 1) - 1 = j
        OBVIOUS
      <4> HIDE DEF D, free
      <4> QED BY <4>1, <4>2
    <3>4. /\ f \in [S(j) -> Bullets] /\ g \in [S(j) \cup {j + 1} -> Bullets]
          /\ \A k \in S(j) : g[k] = f[k]
      <4>1. \A k \in D : t[k] \in Bullets
        OBVIOUS
      <4>2. S(j) \in SUBSET D /\ S(j + 1) \in SUBSET D
        OBVIOUS
      <4> HIDE DEF D, S
      <4> QED BY <3>1, <4>1, <4>2
    <3>5. g[j + 1] = t[j + 1] /\ t[j + 1] \in Bullets
      <4>1. j + 1 \in S(j + 1)
        BY <3>1
      <4> HIDE DEF S
      <4> QED BY <2>1, <4>1
    <3>6. /\ Listed(f) \in Seq(Bullets) /\ (j + 1) - 1 <= Len(Listed(f))
          /\ Listed(g) = Inserted(Listed(f), j + 1, g[j + 1])
      <4> HIDE DEF S, f, g, D
      <4>1. OneMore(Bullets, S(j), j + 1, f, g)
        BY <3>1, <3>2, <3>3, <3>4 DEF OneMore
      <4> QED BY <4>1, ListedInsert
    <3> DEFINE s == Listed(f)
               p == IF j + 1 <= Len(s) THEN j + 1 ELSE Len(s) + 1
    <3>7. h[j + 1] = InsertAt(s, p, t[j + 1])
      <4>1. h[j] = s
        BY ONLY <2>1
      <4> HIDE DEF s, free
      <4> QED BY ONLY <2>4, <2>2, <4>1
    <3>8. p = j + 1 /\ j + 1 \in 1..(Len(s) + 1)
      <4> HIDE DEF s
      <4>1. Len(s) \in Nat
        BY <3>6 DEF s
      <4> QED BY <3>6, <4>1 DEF s
    <3>9. InsertAt(s, j + 1, t[j + 1]) = Inserted(s, j + 1, t[j + 1])
      <4> HIDE DEF s
      <4> QED BY <3>5, <3>6, <3>8, InsertAtIs DEF s
    <3> HIDE DEF p, s
    <3> QED BY <3>5, <3>6, <3>7, <3>8, <3>9 DEF s
  <2> QED BY <2>3, <2>4
<1> HIDE DEF T
<1>5. \A j \in Nat : j \in T
  BY <1>3, <1>4, SetInduction
<1>6. h[Len(t)] = L(Len(t))
  BY <1>2, <1>5 DEF T
<1>7. S(Len(t)) = D
  BY <1>2
<1>8. [k \in D |-> t[k]] = t
  OBVIOUS
<1> QED BY <1>1, <1>6, <1>7, <1>8, ListedSeq

\* Nothing rejected, and the moves are not rejected either.
LEMMA NewOrderKept ==
    ASSUME NEW o \in Seq(Bullets), NEW t \in Seq(Bullets), NEW pairs, Matched(o, t, pairs),
           NEW dec, \A id : ~Out(dec, id)
    PROVE  InNewOrder(o, t, pairs, dec) = t
<1> DEFINE R == {k \in DOMAIN t : k \in FreeTo(t, pairs) => k \in New(t, pairs, dec)}
<1>1. R = DOMAIN t
  BY DEF New
<1>2. ASSUME NEW j \in DOMAIN t PROVE Slot(o, t, pairs, dec, j) = t[j]
  <2>1. CASE j \in FreeTo(t, pairs)
    BY <2>1 DEF Slot
  <2>2. CASE j \notin FreeTo(t, pairs)
    <3>1. PICK p \in pairs : p[2] = j
      BY <2>2 DEF FreeTo
    <3>2. (CHOOSE q \in pairs : q[2] = j) = p /\ (CHOOSE q \in pairs : q[1] = p[1]) = p
      BY <3>1, PartnerOf
    <3>3. p[1] \notin FreeOf(o, pairs)
      BY DEF FreeOf
    <3>4. Says(o, t, pairs, dec, p[1]) = t[j]
      BY <3>1, <3>2, <3>3 DEF Says
    <3> QED BY <2>2, <3>2, <3>4 DEF Slot
  <2> QED BY <2>1, <2>2
<1>3. [j \in R |-> Slot(o, t, pairs, dec, j)] = t
  <2>1. t = [j \in DOMAIN t |-> t[j]]
    OBVIOUS
  <2> HIDE DEF R
  <2> QED BY <1>1, <1>2, <2>1
<1> QED BY <1>3, ListedSeq DEF InNewOrder

\* Everything rejected: the user's own list is there.
LEMMA OldOrderRestored ==
    ASSUME NEW o \in Seq(Bullets), NEW t \in Seq(Bullets), NEW pairs, pairs = Pairs(o, t),
           NEW dec, \A id \in Ids(o, t) : Out(dec, id)
    PROVE  InOldOrder(o, t, pairs, dec) = o
<1>0. Matched(o, t, pairs)
  BY PairsMatched
<1>1. PICK h : Grows(h, o, t, pairs, dec) /\ InOldOrder(o, t, pairs, dec) = h[Len(t)]
  BY <1>0, InOldOrderIs
<1>2. New(t, pairs, dec) = {}
  BY DEF New, Ids
<1>3. Alive(o, pairs, dec) = DOMAIN o
  BY DEF Alive, Ids
<1>4. ASSUME NEW i \in DOMAIN o PROVE Says(o, t, pairs, dec, i) = o[i]
  <2>1. CASE Out(dec, ItemId(i, pairs)) \/ i \in FreeOf(o, pairs)
    BY <2>1 DEF Says
  <2>2. CASE ~Out(dec, ItemId(i, pairs)) /\ i \notin FreeOf(o, pairs)
    <3>1. ItemId(i, pairs) \notin Ids(o, t)
      BY <2>2
    <3>2. i \notin {p[1] : p \in Modified(o, t, pairs)}
      BY <3>1 DEF Ids
    <3>3. PICK p \in pairs : p[1] = i
      BY <2>2 DEF FreeOf
    <3>4. o[i] = t[p[2]]
      BY <3>2, <3>3 DEF Modified
    <3>5. (CHOOSE q \in pairs : q[1] = i) = p
      BY <1>0, <3>3, PartnerOf
    <3> QED BY <2>2, <3>4, <3>5 DEF Says
  <2> QED BY <2>1, <2>2
<1>5. Items(o, t, pairs, dec) = o
  <2>1. o = [i \in DOMAIN o |-> o[i]]
    OBVIOUS
  <2>2. [i \in Alive(o, pairs, dec) |-> Says(o, t, pairs, dec, i)] = o
    BY <1>3, <1>4, <2>1
  <2> QED BY <2>2, ListedSeq DEF Items
<1> DEFINE T == {j \in Nat : h[j] = o}
<1>6. 0 \in T
  BY <1>1, <1>5, GrowsSteps
<1>7. ASSUME NEW j \in Nat, j \in T PROVE j + 1 \in T
  <2>1. h[j + 1] = h[j]
    BY <1>1, <1>2, GrowsSteps
  <2> QED BY <1>7, <2>1
<1> HIDE DEF T
<1>8. \A j \in Nat : j \in T
  BY <1>6, <1>7, SetInduction
<1> QED BY <1>1, <1>8, SeqDomain DEF T

\* For any original and tailored list and any decisions on the changes between them
LEMMA EffectiveIs ==
    ASSUME NEW o \in Seq(Bullets), NEW t \in Seq(Bullets), NEW dec, DOMAIN dec = Ids(o, t),
           NEW pairs, pairs = Pairs(o, t)
    PROVE  /\ (\A id \in DOMAIN dec : dec[id] # "rejected") => Effective(o, t, dec) = t
           /\ (\A id \in DOMAIN dec : dec[id] = "rejected") => Effective(o, t, dec) = o
           /\ ~InOrder(pairs, dec) => AsDecided(o, t, pairs, dec, Effective(o, t, dec))
<1>1. Matched(o, t, pairs)
  BY PairsMatched
<1>2. Effective(o, t, dec) = IF InOrder(pairs, dec) THEN InNewOrder(o, t, pairs, dec)
                             ELSE InOldOrder(o, t, pairs, dec)
  BY DEF Effective
<1>3. ASSUME \A id \in DOMAIN dec : dec[id] # "rejected" PROVE Effective(o, t, dec) = t
  <2>1. \A id : ~Out(dec, id)
    BY <1>3 DEF Out
  <2>2. CASE InOrder(pairs, dec)
    BY <1>1, <1>2, <2>1, <2>2, NewOrderKept
  <2>3. CASE ~InOrder(pairs, dec)
    <3>1. ~Moved(pairs)
      BY <2>1, <2>3 DEF InOrder
    <3> QED BY <1>1, <1>2, <2>1, <2>3, <3>1, OldOrderKept
  <2> QED BY <2>2, <2>3
<1>4. ASSUME \A id \in DOMAIN dec : dec[id] = "rejected" PROVE Effective(o, t, dec) = o
  <2>1. \A id \in Ids(o, t) : Out(dec, id)
    BY <1>4 DEF Out
  <2>2. ~InOrder(pairs, dec)
    <3>1. Moved(pairs) => OrderId \in Ids(o, t)
      BY DEF Ids
    <3> QED BY <2>1, <3>1 DEF InOrder
  <2> QED BY <1>2, <2>1, <2>2, OldOrderRestored
<1>5. ~InOrder(pairs, dec) => AsDecided(o, t, pairs, dec, Effective(o, t, dec))
  BY <1>1, <1>2, OldOrderAsDecided
<1> QED BY <1>3, <1>4, <1>5

-----------------------------------------------------------------------------
(* The draft has a decision on each change between it and the original, and *)
(* on nothing else, and so has what a request that saves it has loaded.     *)

\* d is a draft of o: some answer, with one decision on each change between the two.
Whole(o, d) == \E t \in Answers :
    d \in [tail : {t}, dec : [Ids(o, t) -> Decision], order : SectionOrders, move : Decision]

\* What a request has loaded is a draft of o, and what it was asked for a decision on it.
Carries(o, work) ==
    /\ work.at \in {"refine", "decide", "decide move", "move"} => Whole(o, work.seen)
    /\ work.at = "decide" => work.id \in DOMAIN work.seen.dec /\ work.to \in Decision
    /\ work.at = "decide move" => work.to \in Decision
    /\ work.at = "move" => work.to \in SectionOrders

\* The inductive invariant of TailorSpec
DraftInv ==
    /\ orig \in Bases
    /\ DOMAIN request = Requests
    /\ tailored = Unset \/ Whole(orig, tailored)
    /\ \A w \in Requests : Carries(orig, request[w])

\* Who takes up work has loaded the draft that is there.
LEMMA StartKeeps ==
    ASSUME DraftInv, NEW w \in Requests, NEW work, Start(w, work), Carries(orig, work)
    PROVE  DraftInv'
<1>1. orig' = orig /\ tailored' = tailored /\ request' = [request EXCEPT ![w] = work]
  BY DEF Start
<1>2. \A v \in Requests : Carries(orig, request'[v])
  BY <1>1 DEF DraftInv
<1> QED BY <1>1, <1>2 DEF DraftInv

\* Who writes a draft with its own decisions leaves nothing else behind.
LEMMA WriteKeeps ==
    ASSUME DraftInv, NEW w \in Requests, NEW value, Write(w, value),
           value = Unset \/ Whole(orig, value)
    PROVE  DraftInv'
<1>1. orig' = orig /\ tailored' = value /\ request' = [request EXCEPT ![w] = Waiting]
  BY DEF Write
<1>2. Carries(orig, Waiting)
  BY DEF Carries, Waiting
<1>3. \A v \in Requests : Carries(orig, request'[v])
  BY <1>1, <1>2 DEF DraftInv
<1> QED BY <1>1, <1>3 DEF DraftInv

\* Each step keeps the draft's decisions on its own changes.
LEMMA DraftSteps ==
    ASSUME DraftInv, NEW w \in Requests, Step(w)
    PROVE  DraftInv'
<1>1. ASSUME RunBegin(w) PROVE DraftInv'
  <2>1. Carries(orig, [at |-> "tailor"])
    BY DEF Carries
  <2> QED BY <1>1, <2>1, StartKeeps DEF RunBegin
<1>2. ASSUME RunFails(w) \/ RefineFails(w) PROVE DraftInv'
  BY <1>2, WriteKeeps DEF RunFails, RefineFails, DraftInv
<1>3. ASSUME NEW t \in Answers, RunEnd(w, t) PROVE DraftInv'
  <2> DEFINE d == [tail |-> t, dec |-> [id \in Ids(orig, t) |-> "pending"],
                   order |-> Written, move |-> "pending"]
  <2>1. Whole(orig, d)
    BY SectionAssumption DEF Whole, Decision
  <2> QED BY <1>3, <2>1, WriteKeeps DEF RunEnd
<1>4. ASSUME RefineBegin(w) PROVE DraftInv'
  <2>1. tailored # Unset /\ Start(w, [at |-> "refine", seen |-> tailored])
    BY <1>4 DEF RefineBegin
  <2>2. Carries(orig, [at |-> "refine", seen |-> tailored])
    BY <2>1 DEF Carries, DraftInv
  <2> QED BY <2>1, <2>2, StartKeeps
<1>5. ASSUME NEW t \in Answers, NEW answer \in SectionOrders \cup {Unset}, RefineEnd(w, t, answer)
      PROVE  DraftInv'
  <2> DEFINE seen == request[w].seen
             order == IF answer = Unset THEN EffectiveOrder(seen) ELSE answer
             dec == [id \in Ids(orig, t) |->
                       IF id \in DOMAIN seen.dec THEN seen.dec[id] ELSE "pending"]
             d == [tail |-> t, dec |-> dec, order |-> order, move |-> MoveCarried(seen, order)]
  <2>1. Whole(orig, seen)
    BY <1>5 DEF RefineEnd, DraftInv, Carries
  <2>2. PICK s \in Answers :
          seen \in [tail : {s}, dec : [Ids(orig, s) -> Decision],
                    order : SectionOrders, move : Decision]
    BY <2>1 DEF Whole
  <2>3. \A id \in DOMAIN seen.dec : seen.dec[id] \in Decision
    BY <2>2
  <2>4. seen.order \in SectionOrders /\ seen.move \in Decision /\ "pending" \in Decision
    BY <2>2 DEF Decision
  <2>5. dec \in [Ids(orig, t) -> Decision]
    BY <2>3, <2>4
  <2>6. order \in SectionOrders
    BY <2>4, SectionAssumption DEF EffectiveOrder
  <2>7. MoveCarried(seen, order) \in Decision
    BY <2>4 DEF MoveCarried
  <2>8. Whole(orig, d)
    <3> HIDE DEF dec, order
    <3> QED BY <2>5, <2>6, <2>7 DEF Whole
  <2>9. Write(w, d)
    BY <1>5 DEF RefineEnd
  <2> QED BY <2>8, <2>9, WriteKeeps
<1>6. ASSUME NEW id, NEW to \in Decision, DecideBegin(w, id, to) PROVE DraftInv'
  <2> DEFINE work == [at |-> "decide", seen |-> tailored, id |-> id, to |-> to]
  <2>1. tailored # Unset /\ id \in DOMAIN tailored.dec /\ Start(w, work)
    BY <1>6 DEF DecideBegin
  <2>2. Carries(orig, work)
    BY <2>1 DEF Carries, DraftInv
  <2> QED BY <2>1, <2>2, StartKeeps
<1>7. ASSUME DecideEnd(w) PROVE DraftInv'
  <2> DEFINE seen == request[w].seen
             d == [seen EXCEPT !.dec[request[w].id] = request[w].to]
  <2>1. Whole(orig, seen) /\ request[w].id \in DOMAIN seen.dec /\ request[w].to \in Decision
    BY <1>7 DEF DecideEnd, DraftInv, Carries
  <2>2. Whole(orig, d)
    BY <2>1 DEF Whole
  <2> QED BY <1>7, <2>2, WriteKeeps DEF DecideEnd
<1>8. ASSUME NEW to \in Decision, DecideMoveBegin(w, to) PROVE DraftInv'
  <2> DEFINE work == [at |-> "decide move", seen |-> tailored, to |-> to]
  <2>1. tailored # Unset /\ Start(w, work)
    BY <1>8 DEF DecideMoveBegin
  <2>2. Carries(orig, work)
    BY <2>1 DEF Carries, DraftInv
  <2> QED BY <2>1, <2>2, StartKeeps
<1>9. ASSUME DecideMoveEnd(w) PROVE DraftInv'
  <2> DEFINE seen == request[w].seen
             d == [seen EXCEPT !.move = request[w].to]
  <2>1. Whole(orig, seen) /\ request[w].to \in Decision
    BY <1>9 DEF DecideMoveEnd, DraftInv, Carries
  <2>2. Whole(orig, d)
    BY <2>1 DEF Whole
  <2> QED BY <1>9, <2>2, WriteKeeps DEF DecideMoveEnd
<1>10. ASSUME NEW to \in SectionOrders, MoveBegin(w, to) PROVE DraftInv'
  <2> DEFINE work == [at |-> "move", seen |-> tailored, to |-> to]
  <2>1. tailored # Unset /\ Start(w, work)
    BY <1>10 DEF MoveBegin
  <2>2. Carries(orig, work)
    BY <2>1 DEF Carries, DraftInv
  <2> QED BY <2>1, <2>2, StartKeeps
<1>11. ASSUME MoveEnd(w) PROVE DraftInv'
  <2> DEFINE seen == request[w].seen
             to == request[w].to
             d == [seen EXCEPT !.order = to,
                               !.move = IF to = Written THEN "pending" ELSE "accepted"]
  <2>1. Whole(orig, seen) /\ to \in SectionOrders
    BY <1>11 DEF MoveEnd, DraftInv, Carries
  <2>2. Whole(orig, d)
    <3> HIDE DEF to
    <3> QED BY <2>1 DEF Whole, Decision
  <2> QED BY <1>11, <2>2, WriteKeeps DEF MoveEnd
<1> QED
  BY <1>1, <1>2, <1>3, <1>4, <1>5, <1>6, <1>7, <1>8, <1>9, <1>10, <1>11 DEF Step

\* For any texts, alignments, answers and requests at once: what is printed is the tailored
\* résumé when nothing was rejected and the user's own when everything was; in between,
\* unless the items move, each is what its own decision says, once
\* (resume_tailor.py:947-1003).
THEOREM PrintedIsApproved == TailorSpec => []Approved
<1>1. TailorInit => DraftInv
  <2> SUFFICES ASSUME TailorInit PROVE DraftInv
    OBVIOUS
  <2>1. Carries(orig, Waiting)
    BY DEF Carries, Waiting
  <2>2. /\ DOMAIN request = Requests
        /\ \A w \in Requests : request[w] = Waiting
    BY DEF TailorInit
  <2> QED BY <2>1, <2>2 DEF TailorInit, DraftInv
<1>2. DraftInv /\ [TailorNext]_tailorVars => DraftInv'
  <2>1. CASE TailorNext
    BY <2>1, StepsOnly, DraftSteps
  <2>2. CASE UNCHANGED tailorVars
    BY <2>2 DEF tailorVars, DraftInv
  <2> QED BY <2>1, <2>2
<1>3. DraftInv => Approved
  <2> SUFFICES ASSUME DraftInv, tailored # Unset
               PROVE  LET t == tailored.tail
                          dec == tailored.dec
                          pairs == Pairs(orig, t)
                          printed == Effective(orig, t, dec)
                      IN  /\ (\A id \in DOMAIN dec : dec[id] # "rejected") => printed = t
                          /\ (\A id \in DOMAIN dec : dec[id] = "rejected") => printed = orig
                          /\ ~InOrder(pairs, dec) => AsDecided(orig, t, pairs, dec, printed)
    BY DEF Approved
  <2>1. /\ tailored.tail \in Seq(Bullets) /\ orig \in Seq(Bullets)
        /\ DOMAIN tailored.dec = Ids(orig, tailored.tail)
    BY BaseAssumption DEF DraftInv, Whole
  <2> QED BY <2>1, EffectiveIs
<1> QED BY <1>1, <1>2, <1>3, PTL DEF TailorSpec
=============================================================================
