------------------------------ MODULE Accounts ------------------------------
(***************************************************************************)
(* Who may use the system:                                                 *)
(*                                                                         *)
(*   services/tracker-api/app/routers/auth.py   signup, login, password    *)
(*   services/tracker-api/app/routers/admin.py  what admins do to accounts *)
(*   services/tracker-api/app/deps.py           who a request acts for     *)
(*   services/tracker-api/app/ratelimit.py      failures by address        *)
(*   services/tracker-api/app/main.py           the first admin            *)
(*                                                                         *)
(* Handlers run in a thread pool.  One that loads a row, hashes a password *)
(* for a quarter of a second and writes the columns that differ from what  *)
(* it loaded is a Begin and an End.  The limiter's operations exclude each *)
(* other, but a login asks it first and tells it afterwards.  Its table is *)
(* shared by every endpoint that counts, each under names of its own.      *)
(***************************************************************************)
EXTENDS Naturals, FiniteSets

CONSTANTS
    Users,        \* those who have an account, or may sign up
    Root,         \* ADMIN_EMAIL
    Addresses,    \* callers, as the limiter names them
    Counted,      \* those names that /oauth/register counts under
    MaxFailures,  \* _MAX_FAILURES
    MaxKeys,      \* _MAX_KEYS
    Pool,         \* the thread pool
    MaxRequests,  \* bound: requests
    Missing

ASSUME RootAssumption == Root \in Users
ASSUME CountedAssumption == Counted \subseteq Addresses
ASSUME LimitAssumption == MaxFailures \in Nat \ {0} /\ MaxKeys \in Nat \ {0}
ASSUME ThreadAssumption == IsFiniteSet(Pool)
ASSUME RequestAssumption == MaxRequests \in Nat

VARIABLES
    account,   \* the users table
    session,   \* users with a valid cookie
    failures,  \* _failures: how many within the window; 0 is an entry of old ones only
    before,    \* whose latest failure, of those in that table, came before whose
    failed,    \* history: how often an address failed within the window, in the table or not
    pardoned,  \* history: addresses whose failures were forgotten for a right password
    crowd,     \* history: how many had failed later when the table dropped an address
    handler,   \* what each thread is in the middle of
    requests

noted == <<failed, pardoned, crowd>>
limiter == <<failures, before, noted>>
accountsVars == <<account, session, limiter, handler, requests>>

Free == [at |-> "idle"]
Account == [approved : BOOLEAN, admin : BOOLEAN, password : {"own", "given"}, must : BOOLEAN]
ASSUME MissingAssumption == Missing \notin Account \cup Nat

\* seed_admin, with a password that was given
AccountsInit ==
    /\ account = [u \in Users |->
                    IF u = Root THEN [approved |-> TRUE, admin |-> TRUE, password |-> "given",
                                      must |-> TRUE]
                    ELSE Missing]
    /\ session = {}
    /\ failures = [a \in Addresses |-> Missing]
    /\ before = {}
    /\ failed = [a \in Addresses |-> 0]
    /\ pardoned = {}
    /\ crowd = [a \in Addresses |-> 0]
    /\ handler = [t \in Pool |-> Free]
    /\ requests = 0

-----------------------------------------------------------------------------
Start(t, work) ==
    /\ handler[t] = Free
    /\ handler' = [handler EXCEPT ![t] = work]
    /\ requests < MaxRequests /\ requests' = requests + 1
Answer(t) == handler' = [handler EXCEPT ![t] = Free] /\ UNCHANGED requests

\* get_current_user, get_current_admin: the row as it is now decides.
MayAct(u) == u \in session /\ account[u] # Missing /\ account[u].approved
AdminWork == {"approve", "reject", "toggle", "reset", "delete"}
MayAdminister(u) == MayAct(u) /\ account[u].admin

\* An UPDATE of the columns that were changed; of a row that is gone, nothing
Update(u, row) == account' = IF account[u] = Missing THEN account ELSE [account EXCEPT ![u] = row]
Written(now, seen, value) == IF value # seen THEN value ELSE now

-----------------------------------------------------------------------------
(* The limiter                                                              *)

Count(a) == IF failures[a] = Missing THEN 0 ELSE failures[a]
IsAllowed(a) == Count(a) < MaxFailures

InTable == {a \in Addresses : failures[a] # Missing}
Without(a) == {p \in before : a \notin {p[1], p[2]}}

\* reset
Reset(a) ==
    /\ failures' = [failures EXCEPT ![a] = Missing]
    /\ before' = Without(a)
    /\ pardoned' = IF Count(a) > 0 THEN pardoned \cup {a} ELSE pardoned
    /\ UNCHANGED <<failed, crowd>>

\* is_allowed: an entry of old failures only goes.
Ask(a) == IsAllowed(a) /\ IF Count(a) = 0 THEN Reset(a) ELSE UNCHANGED limiter

\* The addresses in a table that failed within the window, and those of them after one
Fresh(table) == {a \in Addresses : table[a] # Missing /\ table[a] > 0}
Later(table, order, a) == {b \in Fresh(table) : <<a, b>> \in order}

\* Mutant of Kept: the half that failed last goes.
KeptOldest(table, order) ==
    LET listed == {a \in Addresses : table[a] # Missing}
        n == Cardinality(Fresh(table))
    IN  IF Cardinality(listed) <= MaxKeys THEN listed
        ELSE IF n <= MaxKeys THEN Fresh(table)
        ELSE {a \in Fresh(table) : Cardinality(Later(table, order, a)) >= n \div 2}

\* _cap: when the table is too large, what is old goes, then the half that failed
\* longest ago.
Kept(table, order) ==
    LET listed == {a \in Addresses : table[a] # Missing}
        n == Cardinality(Fresh(table))
    IN  IF Cardinality(listed) <= MaxKeys THEN listed
        ELSE IF n <= MaxKeys THEN Fresh(table)
        ELSE {a \in Fresh(table) : Cardinality(Later(table, order, a)) < n - n \div 2}
Cap(table, order) ==
    LET kept == Kept(table, order) IN
    /\ failures' = [a \in Addresses |-> IF a \in kept THEN table[a] ELSE Missing]
    /\ before' = order \cap (kept \X kept)
    /\ crowd' = [a \in Addresses |-> IF a \in Fresh(table) \ kept
                                     THEN Cardinality(Later(table, order, a)) ELSE crowd[a]]

\* record_failure: now the latest
RecordFailure(a) ==
    /\ Cap([failures EXCEPT ![a] = Count(a) + 1], Without(a) \cup ((InTable \ {a}) \X {a}))
    /\ failed' = [failed EXCEPT ![a] = @ + 1]
    /\ UNCHANGED pardoned

\* The oldest failure of an address leaves the window, and its entry if it is in there.
\* Once all that are left are in its entry, what was forgotten has left too.
Pass(a) ==
    LET rest == failed[a] - 1
        whole == rest <= Count(a) IN
    /\ failed[a] > 0
    /\ failed' = [failed EXCEPT ![a] = rest]
    /\ failures' = IF rest < Count(a) THEN [failures EXCEPT ![a] = rest] ELSE failures
    /\ pardoned' = IF whole THEN pardoned \ {a} ELSE pardoned
    /\ crowd' = IF whole THEN [crowd EXCEPT ![a] = 0] ELSE crowd
    /\ UNCHANGED <<account, session, before, handler, requests>>

\* register: a coroutine that asks, and counts the attempt, without a break.
Attempt(a) ==
    /\ a \in Counted /\ IsAllowed(a)
    /\ requests < MaxRequests /\ requests' = requests + 1
    /\ RecordFailure(a)
    /\ UNCHANGED <<account, session, handler>>

-----------------------------------------------------------------------------
(* The user's own requests                                                  *)

\* signup
Signup(u) ==
    /\ account[u] = Missing
    /\ requests < MaxRequests /\ requests' = requests + 1
    /\ account' = [account EXCEPT ![u] = [approved |-> FALSE, admin |-> FALSE,
                                          password |-> "own", must |-> FALSE]]
    /\ UNCHANGED <<session, limiter, handler>>

\* login, from an address that may still try
LoginBegin(t, u, a) ==
    /\ a \notin Counted /\ Ask(a)
    /\ Start(t, [at |-> "login", user |-> u, from |-> a])
    /\ UNCHANGED <<account, session>>

\* A wrong password, or none to be right
LoginWrong(t) ==
    /\ handler[t].at = "login"
    /\ Answer(t)
    /\ RecordFailure(handler[t].from)
    /\ UNCHANGED <<account, session>>

\* The right one counts as right even if the account is not approved.
LoginRight(t) ==
    LET u == handler[t].user IN
    /\ handler[t].at = "login" /\ account[u] # Missing
    /\ Answer(t)
    /\ Reset(handler[t].from)
    /\ session' = IF account[u].approved THEN session \cup {u} ELSE session
    /\ UNCHANGED account

\* logout; or the cookie expires.
Logout(u) ==
    /\ u \in session
    /\ session' = session \ {u}
    /\ UNCHANGED <<account, limiter, handler, requests>>

\* change_password: the old one was right.
ChangeBegin(t, u) ==
    /\ MayAct(u)
    /\ Start(t, [at |-> "change", user |-> u, seen |-> account[u]])
    /\ UNCHANGED <<account, session, limiter>>
ChangeEnd(t) ==
    LET w == handler[t] IN
    /\ w.at = "change"
    /\ Answer(t)
    /\ Update(w.user, [account[w.user] EXCEPT !.password = "own",
                                              !.must = Written(@, w.seen.must, FALSE)])
    /\ UNCHANGED <<session, limiter>>

-----------------------------------------------------------------------------
(* The admins' requests                                                     *)

Administer(t, by, at, u) ==
    /\ MayAdminister(by) /\ account[u] # Missing
    /\ Start(t, [at |-> at, user |-> u, seen |-> account[u]])
    /\ UNCHANGED <<account, session, limiter>>

\* approve_user, reset_password
Approve(t, by, u) == Administer(t, by, "approve", u)
ResetPassword(t, by, u) == Administer(t, by, "reset", u)

\* reject_user
Reject(t, by, u) == account[u] # Missing /\ ~account[u].approved /\ Administer(t, by, "reject", u)

\* toggle_admin and delete_user, for anyone else
Toggle(t, by, u) == by # u /\ Administer(t, by, "toggle", u)
DeleteUser(t, by, u) == by # u /\ Administer(t, by, "delete", u)

AdminEnd(t) ==
    LET w == handler[t]
        row == account[w.user] IN
    /\ Answer(t)
    /\ CASE w.at = "approve" ->
              Update(w.user, [row EXCEPT !.approved = Written(@, w.seen.approved, TRUE)])
         [] w.at = "toggle" -> Update(w.user, [row EXCEPT !.admin = ~w.seen.admin])
         [] w.at = "reset" ->
              Update(w.user, [row EXCEPT !.password = "given",
                                         !.must = Written(@, w.seen.must, TRUE)])
         [] w.at \in {"reject", "delete"} -> account' = [account EXCEPT ![w.user] = Missing]
         [] OTHER -> FALSE
    /\ session' = IF account'[w.user] = Missing THEN session \ {w.user} ELSE session
    /\ UNCHANGED limiter

-----------------------------------------------------------------------------
OwnStep ==
    \/ \E u \in Users : Signup(u) \/ Logout(u)
    \/ \E t \in Pool, u \in Users :
         ChangeBegin(t, u) \/ \E a \in Addresses : LoginBegin(t, u, a)
    \/ \E t \in Pool : LoginWrong(t) \/ LoginRight(t) \/ ChangeEnd(t)
    \/ \E a \in Addresses : Pass(a) \/ Attempt(a)

AdminStep ==
    \/ \E t \in Pool, by \in Users, u \in Users :
         \/ Approve(t, by, u) \/ Reject(t, by, u) \/ Toggle(t, by, u)
         \/ ResetPassword(t, by, u) \/ DeleteUser(t, by, u)
    \/ \E t \in Pool : AdminEnd(t)

AccountsNext == OwnStep \/ AdminStep

AccountsSpec == AccountsInit /\ [][AccountsNext]_accountsVars

-----------------------------------------------------------------------------
\* An address fails within a window at most as often as it may, and once more for each other
\* thread that was comparing a password meanwhile (none, where an attempt counts at once).
\* It fails more often only after a right password, or after it was dropped from a full table
\* for more than half as many others that had failed since; and the table keeps to its size
\* (ratelimit.py:17-24, 46-68; auth.py:66-80).
Trying(a) == {t \in Pool : handler[t].at = "login" /\ handler[t].from = a}
Limit(a) == IF a \in Counted THEN MaxFailures ELSE MaxFailures + Cardinality(Pool) - 1
Excused(a) == a \in pardoned \/ 2 * crowd[a] > MaxKeys
Throttled ==
    /\ \A a \in Addresses : failed[a] + Cardinality(Trying(a)) > Limit(a) => Excused(a)
    /\ Cardinality(InTable) <= MaxKeys
=============================================================================
