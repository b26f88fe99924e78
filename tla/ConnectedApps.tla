---------------------------- MODULE ConnectedApps ----------------------------
(***************************************************************************)
(* An AI assistant connected to an account, from the consent page to what  *)
(* its tools may do:                                                       *)
(*                                                                         *)
(*   services/tracker-api/app/oauth.py            clients, consent, bearer *)
(*   services/tracker-api/app/routers/oauth.py    their endpoints          *)
(*   services/tracker-api/app/assistant.py        what an app may change   *)
(*   services/tracker-api/app/routers/jobs.py     update_job, append_note  *)
(*   services/mcp-connector/app/main.py           the gate and its cache   *)
(*                                                                         *)
(* There is one user with one job.  A consent becomes a code and a grant;  *)
(* how codes are redeemed and tokens rotated is OAuthTokens, and a grant   *)
(* here has one access token.  The tools that read change nothing and are  *)
(* left out, and so is the star; research and tailoring, which an          *)
(* assistant may start too, are GenerationJobs.  A tool call is answered   *)
(* by a thread of the API that reads in one statement and writes in        *)
(* another.                                                                *)
(***************************************************************************)
EXTENDS Naturals, FiniteSets

CONSTANTS
    Clients,      \* client ids
    Vendors,
    HostOf,       \* the vendor whose host a client id is an URL of; NoVendor: registered
    Redirects,
    VendorOf,     \* VENDOR_REDIRECTS: who an address belongs to
    Documents,    \* lists of addresses a client may publish or register
    Grants,
    Calls,        \* the tool calls an assistant has under way at a time
    Limit,        \* LIMITS[ACTION_REMOVE]
    NoVendor, None,
    Swept         \* a registered client's row once it is deleted

ASSUME VendorAssumption ==
    /\ NoVendor \notin Vendors
    /\ HostOf \in [Clients -> Vendors \cup {NoVendor}]
    /\ VendorOf \in [Redirects -> Vendors \cup {NoVendor}]
    /\ Documents \subseteq (SUBSET Redirects) \ {{}}
ASSUME LimitAssumption == Limit \in Nat \ {0}
ASSUME CallAssumption == IsFiniteSet(Calls) /\ Calls # {}

Scopes == {"jobs:read", "jobs:write"}

\* ROUTE_POLICY: each tool's request needs a scope; /auth/me is the gate's.
ScopeOf == [me |-> "jobs:read", remove |-> "jobs:write", note |-> "jobs:write"]
Tools == DOMAIN ScopeOf \ {"me"}

Status == {"other", "dismissed", "expired"}
Removed == {"dismissed", "expired"}        \* ASSISTANT_STATUSES
Notes == {"mine", "app"}                   \* who wrote a paragraph of the notes

VARIABLES
    client,    \* each client's row: its addresses, its vendor, fetched within a day
    page,      \* the consent page that is open
    grant,     \* each consent's code, then grant
    gate,      \* the connector's _valid: how long each grant's token is trusted yet
    call,      \* the tool calls
    review,    \* the review the tools act on
    used       \* the removals recorded in the last 24 h

vars == <<client, page, grant, gate, call, review, used>>

Idle == [at |-> "idle"]

Row == [uris : Documents, vendor : Vendors, fresh : BOOLEAN]
Page == [client : Clients, redirect : Redirects, scopes : SUBSET Scopes, vendor : Vendors]
Grant == [state : {"code", "live", "revoked"}, shown : Page, scopes : SUBSET Scopes]
Review == [status : Status, notes : SUBSET Notes]

ASSUME NoneAssumption ==
    /\ None \notin Row \cup Page \cup Grant \cup Removed
    /\ Swept \notin Row \cup {None}

Init ==
    /\ client = [c \in Clients |-> None]
    /\ page = None
    /\ grant = [g \in Grants |-> None]
    /\ gate = [g \in Grants |-> "unknown"]
    /\ call = [k \in Calls |-> Idle]
    /\ review = [status |-> "other", notes |-> {}]
    /\ used = 0

State(g) == IF grant[g] = None THEN "none" ELSE grant[g].state
Become(g, state) ==
    grant' = [grant EXCEPT ![g] = [state |-> state, shown |-> @.shown, scopes |-> @.scopes]]

-----------------------------------------------------------------------------
(* Clients                                                                  *)

\* vendor_for_redirects: one vendor for all of them, or the client is refused.
VendorsFor(uris) == {v \in Vendors : \A r \in uris : VendorOf[r] = v}

\* register_client, for a client without a document
RegisterClient(c) ==
    /\ HostOf[c] = NoVendor /\ client[c] = None
    /\ \E uris \in Documents : \E v \in VendorsFor(uris) :
        client' = [client EXCEPT ![c] = [uris |-> uris, vendor |-> v, fresh |-> TRUE]]
    /\ UNCHANGED <<page, grant, gate, call, review, used>>

\* Mutant of Load: the document is taken at its word, whatever host it is on.
LoadAnyDocument(c) ==
    IF HostOf[c] = NoVendor THEN {client[c]} \ {None, Swept}
    ELSE IF client[c] # None /\ client[c].fresh THEN {client[c]}
    ELSE UNION {{[uris |-> uris, vendor |-> v, fresh |-> TRUE] : v \in VendorsFor(uris)} :
                uris \in Documents}

\* load_client: the rows it may return, none when it refuses.  A document is fetched
\* again after a day, may have changed, and must stay with the vendor of its host.
Load(c) ==
    IF HostOf[c] = NoVendor THEN {client[c]} \ {None, Swept}
    ELSE IF client[c] # None /\ client[c].fresh THEN {client[c]}
    ELSE {[uris |-> uris, vendor |-> HostOf[c], fresh |-> TRUE] :
          uris \in {d \in Documents : HostOf[c] \in VendorsFor(d)}}

\* A day passes.
Stale(c) ==
    /\ HostOf[c] # NoVendor /\ client[c] # None
    /\ client' = [client EXCEPT ![c] = [uris |-> @.uris, vendor |-> @.vendor, fresh |-> FALSE]]
    /\ UNCHANGED <<page, grant, gate, call, review, used>>

\* sweep of the clients: one that registered a day ago and got no grant goes, and takes
\* a code that is still to be redeemed with it.  Its id is never given out again.
SweepClient(c) ==
    LET itsOwn(g) == grant[g] # None /\ grant[g].shown.client = c IN
    /\ HostOf[c] = NoVendor /\ client[c] \notin {None, Swept}
    /\ \A g \in Grants : itsOwn(g) => grant[g].state = "code"
    /\ client' = [client EXCEPT ![c] = Swept]
    /\ grant' = [g \in Grants |-> IF itsOwn(g) THEN None ELSE grant[g]]
    /\ UNCHANGED <<page, gate, call, review, used>>

-----------------------------------------------------------------------------
(* Consent                                                                  *)

\* parse_scope: asking for nothing is asking for the lot.
Asked(scopes) == IF scopes = {} THEN Scopes ELSE scopes

\* authorize_context: the page names the vendor and the scopes of a request that
\* passes.  The client's row is saved in any case.  (Bound: a page for each grant.)
AuthorizeContext(c, redirect, scopes) ==
    /\ page = None /\ \E g \in Grants : grant[g] = None
    /\ \E row \in Load(c) :
        /\ client' = [client EXCEPT ![c] = row]
        /\ page' = IF redirect \in row.uris
                   THEN [client |-> c, redirect |-> redirect, scopes |-> Asked(scopes),
                         vendor |-> row.vendor]
                   ELSE None
    /\ UNCHANGED <<grant, gate, call, review, used>>

\* Another user's consent page: the clients are everyone's.
OtherContext(c) ==
    /\ \E row \in Load(c) : client' = [client EXCEPT ![c] = row]
    /\ UNCHANGED <<page, grant, gate, call, review, used>>

\* authorize_decide, allowed: the request is checked again, the client loaded anew,
\* and a code for it issued (issue_code).
Allow(g) ==
    /\ page # None /\ grant[g] = None
    /\ \E row \in Load(page.client) :
        /\ client' = [client EXCEPT ![page.client] = row]
        /\ grant' = IF page.redirect \in row.uris
                    THEN [grant EXCEPT ![g] = [state |-> "code", shown |-> page,
                                               scopes |-> page.scopes]]
                    ELSE grant
    /\ page' = None
    /\ UNCHANGED <<gate, call, review, used>>

\* deny_url, or the tab is closed.
Deny ==
    /\ page # None
    /\ page' = None
    /\ UNCHANGED <<client, grant, gate, call, review, used>>

\* exchange_code, by the vendor the code was delivered to.
Redeem(g) ==
    /\ State(g) = "code"
    /\ Become(g, "live")
    /\ UNCHANGED <<client, page, gate, call, review, used>>

\* disconnect_app, and revocation by the client
Disconnect(g) ==
    /\ State(g) = "live"
    /\ Become(g, "revoked")
    /\ UNCHANGED <<client, page, gate, call, review, used>>

-----------------------------------------------------------------------------
(* The connector                                                            *)

Serve(k, new) == call' = [call EXCEPT ![k] = new]

\* A call on its way, sent when its grant was revoked already (late) or not
Sent(at, g, tool, late) == [at |-> at, grant |-> g, tool |-> tool, late |-> late]
Moved(c, at) == Sent(at, c.grant, c.tool, c.late)

\* user_from_bearer: what a request with the grant's token is let through to.  (The user
\* was approved when they consented, and no endpoint takes that back.)
Accepted(g, route) ==
    State(g) = "live" /\ ScopeOf[route] \in grant[g].scopes

\* Mutant of Gate: a token in use stays trusted.
GateRenewing(k, g, tool) ==
    /\ call[k] = Idle /\ State(g) \in {"live", "revoked"}
    /\ Serve(k, Sent(IF gate[g] = "unknown" THEN "ask" ELSE "sent", g, tool,
                     State(g) = "revoked"))
    /\ gate' = IF gate[g] = "unknown" THEN gate ELSE [gate EXCEPT ![g] = "new"]
    /\ UNCHANGED <<client, page, grant, review, used>>

\* _BearerGate: a token trusted yet is not asked about.
Gate(k, g, tool) ==
    /\ call[k] = Idle /\ State(g) \in {"live", "revoked"}
    /\ Serve(k, Sent(IF gate[g] = "unknown" THEN "ask" ELSE "sent", g, tool,
                     State(g) = "revoked"))
    /\ UNCHANGED <<client, page, grant, gate, review, used>>

\* GET /auth/me as tracker-api answers it; or it cannot be reached, and the token is
\* challenged, whatever trust in it another request may have brought.
GateAsks(k) ==
    /\ call[k].at = "ask"
    /\ \/ Serve(k, Moved(call[k], IF Accepted(call[k].grant, "me") THEN "live" ELSE "dead"))
       \/ Serve(k, Idle)
    /\ UNCHANGED <<client, page, grant, gate, review, used>>

\* _token_is_live with that answer: the token is trusted, or challenged.
GateHears(k) ==
    /\ call[k].at \in {"live", "dead"}
    /\ LET live == call[k].at = "live" IN
        /\ gate' = [gate EXCEPT ![call[k].grant] = IF live THEN "new" ELSE "unknown"]
        /\ Serve(k, IF live THEN Moved(call[k], "sent") ELSE Idle)
    /\ UNCHANGED <<client, page, grant, review, used>>

\* VALID_FOR runs down.
GateAges(g) ==
    /\ gate[g] # "unknown"
    /\ gate' = [gate EXCEPT ![g] = IF @ = "new" THEN "old" ELSE "unknown"]
    /\ UNCHANGED <<client, page, grant, call, review, used>>

-----------------------------------------------------------------------------
(* What a tool does                                                         *)

\* What the call would change, from the review as it is loaded: a removal under a
\* status of its own choice, if that is another; the notes and a paragraph.
Changes(tool) ==
    CASE tool = "remove" -> (Removed \ {review.status})
                            \cup IF review.status \in Removed THEN {None} ELSE {}
      [] tool = "note" -> {review.notes \cup {"app"}}

\* Mutant of WithinLimit: one more than the limit.
WithinLimitAndOne(tool, change) == tool = "remove" /\ change # None => used <= Limit

\* assistant.check counts what is recorded.
WithinLimit(tool, change) == tool = "remove" /\ change # None => used < Limit

Opened(c, change) ==
    [at |-> "open", grant |-> c.grant, tool |-> c.tool, late |-> c.late, change |-> change]

\* Mutant of Open: the gate has seen to the token.
OpenTrusting(k) ==
    /\ call[k].at = "sent"
    /\ \E change \in Changes(call[k].tool) :
        Serve(k, IF ScopeOf[call[k].tool] \in grant[call[k].grant].scopes
                 THEN Opened(call[k], change) ELSE Idle)
    /\ UNCHANGED <<client, page, grant, gate, review, used>>

\* The request is let through, or not; the review loaded; a removal checked.
Open(k) ==
    /\ call[k].at = "sent"
    /\ \E change \in Changes(call[k].tool) :
        Serve(k, IF Accepted(call[k].grant, call[k].tool) /\ WithinLimit(call[k].tool, change)
                 THEN Opened(call[k], change) ELSE Idle)
    /\ UNCHANGED <<client, page, grant, gate, review, used>>

Marked(status) == review' = [status |-> status, notes |-> review.notes]
Noted(notes) == review' = [status |-> review.status, notes |-> notes]

\* update_job and append_note: the column it changes, and the record of a removal.
Write(k) ==
    LET c == call[k] IN
    /\ c.at = "open"
    /\ \/ /\ c.tool = "note"
          /\ Noted(c.change)
          /\ UNCHANGED used
       \/ /\ c.tool = "remove" /\ c.change # None
          /\ Marked(c.change)
          /\ used' = used + 1
       \/ c.tool = "remove" /\ c.change = None /\ UNCHANGED <<review, used>>
    /\ Serve(k, Idle)
    /\ UNCHANGED <<client, page, grant, gate>>

\* The user saves the job: update_job from the web.
Save ==
    /\ \/ \E status \in Status \ {review.status} : Marked(status)
       \/ \E notes \in (SUBSET Notes) \ {review.notes} : Noted(notes)
    /\ UNCHANGED <<client, page, grant, gate, call, used>>

\* A removal is 24 h old.
Lapse ==
    /\ used > 0
    /\ used' = used - 1
    /\ UNCHANGED <<client, page, grant, gate, call, review>>

-----------------------------------------------------------------------------
Connect ==
    \/ \E c \in Clients : RegisterClient(c) \/ Stale(c) \/ SweepClient(c) \/ OtherContext(c)
    \/ \E c \in Clients, r \in Redirects, scopes \in SUBSET Scopes :
            AuthorizeContext(c, r, scopes)
    \/ \E g \in Grants : Allow(g) \/ Redeem(g) \/ Disconnect(g)
    \/ Deny

ToolCall(k) ==
    \/ \E g \in Grants, tool \in Tools : Gate(k, g, tool)
    \/ GateAsks(k) \/ GateHears(k)
    \/ Open(k) \/ Write(k)

Next ==
    \/ Connect
    \/ \E k \in Calls : ToolCall(k)
    \/ \E g \in Grants : GateAges(g)
    \/ Save \/ Lapse

\* Time passes at the connector.
Spec == Init /\ [][Next]_vars /\ \A g \in Grants : WF_vars(GateAges(g))

-----------------------------------------------------------------------------
Call ==
    [at : {"ask", "live", "dead", "sent"}, grant : Grants, tool : Tools, late : BOOLEAN]

OpenCall(c) ==
    /\ DOMAIN c = {"at", "grant", "tool", "late", "change"}
    /\ c.at = "open" /\ c.grant \in Grants /\ c.late \in BOOLEAN
    /\ \/ c.tool = "remove" /\ c.change \in Removed \cup {None}
       \/ c.tool = "note" /\ c.change \subseteq Notes

TypeOK ==
    /\ client \in [Clients -> Row \cup {None, Swept}]
    /\ page \in Page \cup {None}
    /\ grant \in [Grants -> Grant \cup {None}]
    /\ gate \in [Grants -> {"unknown", "new", "old"}]
    /\ \A k \in Calls : call[k] = Idle \/ OpenCall(call[k]) \/ call[k] \in Call
    /\ DOMAIN call = Calls
    /\ review \in Review
    /\ used \in Nat

\* The vendor the consent page named is who the code went to and who everything done
\* under the grant is put down to, and the scopes it listed are those granted, however
\* often the client's document changes; and the client's row is there as long as the
\* grant is (oauth.py:11-16, 321, 595, 609; models.py:393-394).
AsShown ==
    \A g \in Grants : grant[g] # None =>
        LET shown == grant[g].shown IN
        /\ client[shown.client] \in Row /\ client[shown.client].vendor = shown.vendor
        /\ VendorOf[shown.redirect] = shown.vendor
        /\ grant[g].scopes = shown.scopes

\* The daily limit is checked before a removal is recorded: requests that meet pass it
\* by as many as they are, less one, and no further (assistant.py:66, jobs.py:457-458).
OvershootBounded == used <= Limit + Cardinality(Calls) - 1

\* A call sent after the user disconnected the app changes nothing, though the connector
\* still trusts its token (mcp-connector/app/main.py:46-48).
RevokedAtOnce == [][\A k \in Calls : Write(k) => ~call[k].late]_vars

\* append_note's docstring: the only way a connected app can write notes, so it can never
\* wipe the user's own (jobs.py:489-490).
NotesKept ==
    [][\A k \in Calls :
        Write(k) /\ "mine" \in review.notes => "mine" \in review'.notes]_vars

\* The connector comes to challenge a disconnected app, so that the assistant starts the
\* sign-in, however busy it is (mcp-connector/app/main.py:9-13).
ChallengedInTheEnd == \A g \in Grants : (State(g) = "revoked") ~> (gate[g] = "unknown")
=============================================================================
