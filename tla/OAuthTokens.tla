----------------------------- MODULE OAuthTokens -----------------------------
(***************************************************************************)
(* The token endpoint for connected assistants:                            *)
(* services/tracker-api/app/oauth.py and routers/oauth.py.                 *)
(*                                                                         *)
(* A user's consent is a code; a code is exchanged for a grant and a pair  *)
(* of tokens (access and refresh); a refresh token is exchanged for a new  *)
(* pair.  POST /oauth/token is a coroutine that never awaits once its form *)
(* is read, so a process serves one exchange or rotation at a time, each   *)
(* in several transactions; the user's disconnect, the sweep and the other *)
(* processes run in between, and a restart may cut it anywhere.            *)
(*                                                                         *)
(* PKCE, scopes, redirect URIs and the rate limit are left out: they       *)
(* refuse a request and change nothing here.  So is the expiry of an       *)
(* access token, which only user_from_bearer looks at.                     *)
(***************************************************************************)
EXTENDS Naturals, FiniteSets

CONSTANTS
    Processes,     \* of the API: one, two while a rollout overlaps
    Codes,         \* consents given
    Parties,       \* a user and a client
    PartyOf,       \* who gave each consent, to whom
    MaxGrants,     \* bound: grants made
    MaxPairs,      \* bound: pairs issued
    MaxCrashes,    \* bound: restarts
    NoCode

Grants == 1..MaxGrants
Pairs == 1..MaxPairs
Kinds == {"access", "refresh"}
NoGrant == 0
Idle == [at |-> "idle"]

ASSUME PartyAssumption == PartyOf \in [Codes -> Parties]
ASSUME LimitsAssumption ==
    MaxGrants \in Nat /\ MaxPairs \in Nat /\ MaxCrashes \in Nat
ASSUME NoCodeAssumption == NoCode \notin Codes

VARIABLES
    code,       \* each authorization code's row
    codeOf,     \* the code each grant was made for, NoCode if not made yet
    revoked,    \* the grants with revoked_at
    grantOf,    \* the grant of each pair, NoGrant if not issued yet
    live,       \* the tokens without revoked_at
    lapsed,     \* the codes, and the pairs' refresh tokens, past expires_at
    loop,       \* the token request each process serves
    delivered,  \* the pairs whose answer reached the client
    reused,     \* history: codes refused for being used, their grants dealt with
    lost,       \* history: grants with an answer that never arrived
    ended,      \* history: grants the user or the client revoked
    strayed,    \* history: the parties whose client repeated what was answered
    crashes

tables == <<code, codeOf, revoked, grantOf, live, lapsed>>
clientVars == <<delivered, reused, lost, ended, strayed>>
vars == <<code, codeOf, revoked, grantOf, live, lapsed, loop, delivered, reused, lost,
          ended, strayed, crashes>>

Made(g) == codeOf[g] # NoCode
Party(g) == PartyOf[codeOf[g]]
Issued(q) == grantOf[q] # NoGrant
TokensOf(g) == {q \in Pairs : Issued(q) /\ grantOf[q] = g} \X Kinds

\* Rows are numbered as they are made.
NextGrant(g) == ~Made(g) /\ \A h \in Grants : h < g => Made(h)
NextPair(q) == ~Issued(q) /\ \A r \in Pairs : r < q => Issued(r)

Init ==
    /\ code = [c \in Codes |-> "unissued"]
    /\ codeOf = [g \in Grants |-> NoCode]
    /\ revoked = {}
    /\ grantOf = [q \in Pairs |-> NoGrant]
    /\ live = {}
    /\ lapsed = {}
    /\ loop = [p \in Processes |-> Idle]
    /\ delivered = {}
    /\ reused = {}
    /\ lost = {}
    /\ ended = {}
    /\ strayed = {}
    /\ crashes = 0

-----------------------------------------------------------------------------
(* What a client presents: any code and refresh token it was given.  One    *)
(* that keeps to the protocol repeats only what was not answered.           *)

AnsweredCode(c) == \E q \in delivered : codeOf[grantOf[q]] = c
AnsweredRefresh(q) == \E r \in delivered : grantOf[r] = grantOf[q] /\ r > q

Present(party, again) == strayed' = IF again THEN strayed \cup {party} ELSE strayed

Serve(p, request) == loop' = [loop EXCEPT ![p] = request]

-----------------------------------------------------------------------------
(* revoke_grant, _revoke_grants_for                                         *)

\* One transaction; tokens inserted later are not touched.
RevokeGrant(g) ==
    /\ revoked' = revoked \cup {g}
    /\ live' = live \ TokensOf(g)

\* Mutant of RevokeNext: the first grant found is enough.
RevokeFirst(p) ==
    /\ loop[p].at = "revoking"
    /\ \E g \in loop[p].grants : RevokeGrant(g)
    /\ Serve(p, Idle)
    /\ reused' = reused \cup loop[p].because
    /\ UNCHANGED <<code, codeOf, grantOf, lapsed, delivered, lost, ended, strayed, crashes>>

\* One grant of the list read before, then the next; the request is refused in
\* the end.
RevokeNext(p) ==
    /\ loop[p].at = "revoking"
    /\ \E g \in loop[p].grants :
        LET rest == loop[p].grants \ {g} IN
        /\ RevokeGrant(g)
        /\ Serve(p, IF rest = {} THEN Idle ELSE [loop[p] EXCEPT !.grants = rest])
        /\ reused' = IF rest = {} THEN reused \cup loop[p].because ELSE reused
    /\ UNCHANGED <<code, codeOf, grantOf, lapsed, delivered, lost, ended, strayed, crashes>>

-----------------------------------------------------------------------------
(* exchange_code                                                            *)

\* Mutant of ExchangeLoad: used_at is never looked at.
ExchangeLoadUnchecked(p, c) ==
    /\ loop[p] = Idle
    /\ code[c] \in {"fresh", "used"} /\ c \notin lapsed
    /\ Present(PartyOf[c], AnsweredCode(c))
    /\ Serve(p, [at |-> "claim", code |-> c])
    /\ UNCHANGED <<tables, delivered, reused, lost, ended, crashes>>

\* The row is read and judged.  A used code condemns the grants of its user and
\* client; an unknown or an expired one is just refused.
ExchangeLoad(p, c) ==
    /\ loop[p] = Idle
    /\ Present(PartyOf[c], AnsweredCode(c))
    /\ \/ /\ code[c] = "fresh" /\ c \notin lapsed
          /\ Serve(p, [at |-> "claim", code |-> c])
          /\ UNCHANGED reused
       \/ /\ code[c] = "used"
          /\ LET found == {g \in Grants : Made(g) /\ Party(g) = PartyOf[c] /\ g \notin revoked}
             IN  IF found = {}
                  THEN reused' = reused \cup {c} /\ UNCHANGED loop
                  ELSE /\ Serve(p, [at |-> "revoking", grants |-> found, because |-> {c}])
                       /\ UNCHANGED reused
    /\ UNCHANGED <<tables, delivered, lost, ended, crashes>>

\* used_at and the grant, one commit.  A code swept meanwhile is an error.
ExchangeClaim(p) ==
    /\ loop[p].at = "claim"
    /\ IF code[loop[p].code] = "swept"
        THEN Serve(p, Idle) /\ UNCHANGED <<code, codeOf>>
        ELSE \E g \in Grants :
                /\ NextGrant(g)
                /\ code' = [code EXCEPT ![loop[p].code] = "used"]
                /\ codeOf' = [codeOf EXCEPT ![g] = loop[p].code]
                /\ Serve(p, [at |-> "issue", grant |-> g])
    /\ UNCHANGED <<revoked, grantOf, live, lapsed, clientVars, crashes>>

\* _issue_tokens, and its commit.
Issue(q, g) ==
    /\ NextPair(q)
    /\ grantOf' = [grantOf EXCEPT ![q] = g]
    /\ live' = live \cup ({q} \X Kinds)

ExchangeIssue(p) ==
    /\ loop[p].at = "issue"
    /\ \E q \in Pairs :
        /\ Issue(q, loop[p].grant)
        /\ Serve(p, [at |-> "answer", pair |-> q])
    /\ UNCHANGED <<code, codeOf, revoked, lapsed, clientVars, crashes>>

-----------------------------------------------------------------------------
(* refresh                                                                  *)

\* Mutant of RefreshLoad: a token that was rotated out is looked up like any other.
RefreshLoadSpent(p, q) ==
    /\ loop[p] = Idle /\ q \in delivered
    /\ Present(Party(grantOf[q]), AnsweredRefresh(q))
    /\ q \notin lapsed /\ grantOf[q] \notin revoked
    /\ Serve(p, [at |-> "rotate", from |-> q])
    /\ UNCHANGED <<tables, delivered, reused, lost, ended, crashes>>

\* A spent token condemns its grant; an expired one, or one whose grant is revoked,
\* is just refused.
RefreshLoad(p, q) ==
    /\ loop[p] = Idle /\ q \in delivered
    /\ Present(Party(grantOf[q]), AnsweredRefresh(q))
    /\ \/ /\ <<q, "refresh">> \notin live
          /\ Serve(p, [at |-> "revoking", grants |-> {grantOf[q]}, because |-> {}])
       \/ /\ <<q, "refresh">> \in live /\ q \notin lapsed
          /\ grantOf[q] \notin revoked
          /\ Serve(p, [at |-> "rotate", from |-> q])
    /\ UNCHANGED <<tables, delivered, reused, lost, ended, crashes>>

\* Mutant of RefreshIssue: the old token is spent before its successor is on its way.
RefreshIssueSpending(p) ==
    /\ loop[p].at = "rotate"
    /\ \E r \in Pairs :
        /\ NextPair(r)
        /\ grantOf' = [grantOf EXCEPT ![r] = grantOf[loop[p].from]]
        /\ live' = (live \ {<<loop[p].from, "refresh">>}) \cup ({r} \X Kinds)
        /\ Serve(p, [at |-> "retire", from |-> loop[p].from, pair |-> r])
    /\ UNCHANGED <<code, codeOf, revoked, lapsed, clientVars, crashes>>

RefreshIssue(p) ==
    /\ loop[p].at = "rotate"
    /\ \E r \in Pairs :
        /\ Issue(r, grantOf[loop[p].from])
        /\ Serve(p, [at |-> "retire", from |-> loop[p].from, pair |-> r])
    /\ UNCHANGED <<code, codeOf, revoked, lapsed, clientVars, crashes>>

\* Mutant of RefreshRetire: the old refresh token is spent, the access tokens live on.
RetireRefreshOnly(p) ==
    /\ loop[p].at = "retire"
    /\ live' = live \ {<<loop[p].from, "refresh">>}
    /\ Serve(p, [at |-> "answer", pair |-> loop[p].pair])
    /\ UNCHANGED <<code, codeOf, revoked, grantOf, lapsed, clientVars, crashes>>

\* The old refresh token is spent, and every access token but the new one.
RefreshRetire(p) ==
    /\ loop[p].at = "retire"
    /\ LET new == loop[p].pair
           old == {q \in Pairs : grantOf[q] = grantOf[new]} \ {new}
       IN  live' = live \ ({<<loop[p].from, "refresh">>} \cup (old \X {"access"}))
    /\ Serve(p, [at |-> "answer", pair |-> loop[p].pair])
    /\ UNCHANGED <<code, codeOf, revoked, grantOf, lapsed, clientVars, crashes>>

\* The answer reaches the client, or does not.
Answer(p) ==
    /\ loop[p].at = "answer"
    /\ \/ delivered' = delivered \cup {loop[p].pair} /\ UNCHANGED lost
       \/ lost' = lost \cup {grantOf[loop[p].pair]} /\ UNCHANGED delivered
    /\ Serve(p, Idle)
    /\ UNCHANGED <<tables, reused, ended, strayed, crashes>>

-----------------------------------------------------------------------------
(* The user, the client's revocation, time, the sweep, restarts             *)

\* disconnect_app
Disconnect(g) ==
    /\ Made(g) /\ g \notin revoked
    /\ RevokeGrant(g)
    /\ ended' = ended \cup {g}
    /\ UNCHANGED <<code, codeOf, grantOf, lapsed, loop, delivered, reused, lost, strayed, crashes>>

\* POST /oauth/revoke with a token of any kind and state
RevokeToken(p, q) ==
    /\ loop[p] = Idle /\ q \in delivered
    /\ RevokeGrant(grantOf[q])
    /\ ended' = ended \cup {grantOf[q]}
    /\ UNCHANGED <<code, codeOf, grantOf, lapsed, loop, delivered, reused, lost, strayed, crashes>>

\* issue_code
IssueCode(c) ==
    /\ code[c] = "unissued"
    /\ code' = [code EXCEPT ![c] = "fresh"]
    /\ UNCHANGED <<codeOf, revoked, grantOf, live, lapsed, loop, clientVars, crashes>>

Lapse ==
    /\ \E t \in {c \in Codes : code[c] \in {"fresh", "used"}} \cup {q \in Pairs : Issued(q)} :
        lapsed' = lapsed \cup {t}
    /\ UNCHANGED <<code, codeOf, revoked, grantOf, live, loop, clientVars, crashes>>

\* sweep
Sweep ==
    /\ code' = [c \in Codes |-> IF c \in lapsed THEN "swept" ELSE code[c]]
    /\ UNCHANGED <<codeOf, revoked, grantOf, live, lapsed, loop, clientVars, crashes>>

\* The request a process serves is cut off; its answer is lost if a commit made it due.
Crash(p) ==
    /\ loop[p] # Idle /\ crashes < MaxCrashes
    /\ crashes' = crashes + 1
    /\ lost' = lost \cup CASE loop[p].at = "issue" -> {loop[p].grant}
                           [] loop[p].at = "answer" -> {grantOf[loop[p].pair]}
                           [] OTHER -> {}
    /\ Serve(p, Idle)
    /\ UNCHANGED <<tables, delivered, reused, ended, strayed>>

-----------------------------------------------------------------------------
TokenRequest(p) ==
    \/ \E c \in Codes : ExchangeLoad(p, c)
    \/ \E q \in Pairs : RefreshLoad(p, q) \/ RevokeToken(p, q)
    \/ ExchangeClaim(p) \/ ExchangeIssue(p) \/ RefreshIssue(p) \/ RefreshRetire(p)
    \/ RevokeNext(p) \/ Answer(p)

Next ==
    \/ \E p \in Processes : TokenRequest(p) \/ Crash(p)
    \/ \E g \in Grants : Disconnect(g)
    \/ \E c \in Codes : IssueCode(c)
    \/ Lapse \/ Sweep

Spec == Init /\ [][Next]_vars

-----------------------------------------------------------------------------
Request ==
    {Idle} \cup [at : {"claim"}, code : Codes]
    \cup [at : {"issue"}, grant : Grants]
    \cup [at : {"rotate"}, from : Pairs]
    \cup [at : {"retire"}, from : Pairs, pair : Pairs]
    \cup [at : {"answer"}, pair : Pairs]
    \cup [at : {"revoking"}, grants : SUBSET Grants, because : SUBSET Codes]

TypeOK ==
    /\ code \in [Codes -> {"unissued", "fresh", "used", "swept"}]
    /\ codeOf \in [Grants -> Codes \cup {NoCode}]
    /\ revoked \subseteq Grants
    /\ grantOf \in [Pairs -> Grants \cup {NoGrant}]
    /\ live \subseteq Pairs \X Kinds
    /\ lapsed \subseteq Codes \cup Pairs
    /\ loop \in [Processes -> Request]
    /\ delivered \subseteq Pairs
    /\ reused \subseteq Codes
    /\ lost \subseteq Grants /\ ended \subseteq Grants /\ strayed \subseteq Parties
    /\ crashes \in Nat

\* A consent is redeemed once: no code ever makes two grants, through retries,
\* restarts and sweeps (models.py:408).
CodeBuysOneGrant == \A g, h \in Grants : Made(g) /\ codeOf[g] = codeOf[h] => g = h

\* Of the pairs a client was given under a grant, one refresh token and one access
\* token at most still live, wherever a rotation was cut (oauth.py:494-495).
OneLivePair ==
    \A q, r \in delivered : \A k \in Kinds :
        grantOf[q] = grantOf[r] /\ <<q, k>> \in live /\ <<r, k>> \in live => q = r

\* A code presented again kills whatever its first use produced, also when that use
\* was cut between the grant and its tokens (oauth.py:452-455).
ReuseRevokes == \A c \in reused : \A g \in Grants : codeOf[g] = c => g \in revoked

\* A client that repeats only what was not answered keeps its grant until the user
\* or it ends it, unless an answer to the same user and client was lost: a restart
\* in the middle of a rotation costs it nothing (oauth.py:491-503).
StaysConnected ==
    \A g \in revoked : \/ g \in ended
                       \/ Party(g) \in strayed
                       \/ \E h \in lost : Party(h) = Party(g)

-----------------------------------------------------------------------------
\* What user_from_bearer and refresh accept of what a client was handed, expiry aside:
\* neither the token nor its grant has revoked_at.
Good == {t \in live : t[1] \in delivered /\ grantOf[t[1]] \notin revoked}

\* The connection as the user and the client see it.
Link == INSTANCE Connection WITH
    Consents <- Codes,
    Links <- Grants,
    Numbers <- Pairs,
    NoConsent <- NoCode,
    NoLink <- NoGrant,
    bought <- codeOf,
    under <- [q \in Pairs |-> IF q \in delivered THEN grantOf[q] ELSE NoGrant],
    good <- Good,
    over <- revoked,
    refused <- reused

\* The token endpoint implements the connection: each request of several commits,
\* wherever a disconnect, another request or a restart cuts into it, is one of its
\* steps or none (oauth.py:441-535).
ImplementsConnection == Link!LinkSpec
=============================================================================
