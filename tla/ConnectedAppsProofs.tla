------------------------ MODULE ConnectedAppsProofs ------------------------
(***************************************************************************)
(* Proofs about ConnectedApps, for every set of clients, vendors,          *)
(* addresses, documents, grants and calls, and every limit: AsShown,       *)
(* RevokedAtOnce, OvershootBounded and types.                              *)
(***************************************************************************)
EXTENDS ConnectedApps, FiniteSetTheorems, TLAPS

-----------------------------------------------------------------------------
(* Consent                                                                  *)

\* A row's addresses are its vendor's, and a document's vendor is its host's.
RowAgrees(c, row) ==
    /\ HostOf[c] # NoVendor => row.vendor = HostOf[c]
    /\ \A r \in row.uris : VendorOf[r] = row.vendor

ClientsAgree ==
    \A c \in Clients :
        /\ client[c] \in Row => RowAgrees(c, client[c])
        /\ client[c] = Swept => HostOf[c] = NoVendor

\* The page outlives a change of the document, and the client itself, but a client that
\* is deleted does not come back as another's.
PageAgrees ==
    page # None =>
        /\ VendorOf[page.redirect] = page.vendor
        /\ client[page.client] # None
        /\ client[page.client] # Swept => client[page.client].vendor = page.vendor

ConsentInv ==
    /\ client \in [Clients -> Row \cup {None, Swept}]
    /\ page \in Page \cup {None}
    /\ grant \in [Grants -> Grant \cup {None}]
    /\ ClientsAgree /\ PageAgrees /\ AsShown

consent == <<client, page, grant>>

LEMMA InitConsent == ASSUME Init PROVE ConsentInv
  BY NoneAssumption DEF Init, ConsentInv, ClientsAgree, PageAgrees, AsShown

\* What load_client returns is a row that agrees, with the vendor it had.
LEMMA LoadAgrees ==
  ASSUME ConsentInv, NEW c \in Clients, NEW row \in Load(c)
  PROVE  /\ row \in Row /\ RowAgrees(c, row)
         /\ client[c] # Swept
         /\ client[c] # None => client[c] \in Row /\ row.vendor = client[c].vendor
<1>1. client[c] \in Row \cup {None, Swept}
  BY DEF ConsentInv
<1>2. CASE HostOf[c] = NoVendor
  BY <1>1, <1>2, NoneAssumption DEF Load, ConsentInv, ClientsAgree
<1>3. CASE HostOf[c] # NoVendor
  <2>1. client[c] # Swept
    BY <1>3 DEF ConsentInv, ClientsAgree
  <2>2. CASE client[c] # None /\ client[c].fresh
    <3>1. row = client[c]
      BY <1>3, <2>2 DEF Load
    <3> QED BY <1>1, <2>1, <2>2, <3>1 DEF ConsentInv, ClientsAgree
  <2>3. CASE ~(client[c] # None /\ client[c].fresh)
    <3>1. PICK uris \in Documents :
             /\ HostOf[c] \in VendorsFor(uris)
             /\ row = [uris |-> uris, vendor |-> HostOf[c], fresh |-> TRUE]
      BY <1>3, <2>3 DEF Load
    <3>2. row \in Row /\ RowAgrees(c, row)
      BY <3>1 DEF Row, RowAgrees, VendorsFor
    <3>3. client[c] \in Row => row.vendor = client[c].vendor
      BY <1>3, <3>1 DEF ConsentInv, ClientsAgree, RowAgrees
    <3> QED BY <1>1, <2>1, <3>2, <3>3
  <2> QED BY <2>2, <2>3
<1> QED BY <1>2, <1>3

\* A step keeps who the clients are.
SameVendors ==
    \A c \in Clients :
        /\ client[c] \in Row => client'[c] \in Row /\ client'[c].vendor = client[c].vendor
        /\ client[c] = Swept => client'[c] = Swept

\* A client's row is replaced by one that agrees and has its vendor, or is a first one.
LEMMA RowReplaced ==
  ASSUME ConsentInv, NEW c \in Clients, NEW row \in Row, RowAgrees(c, row),
         client[c] # Swept, client[c] # None => row.vendor = client[c].vendor,
         client' = [client EXCEPT ![c] = row]
  PROVE  /\ client' \in [Clients -> Row \cup {None, Swept}] /\ client'[c] = row
         /\ ClientsAgree' /\ SameVendors
<1>1. client' \in [Clients -> Row \cup {None, Swept}] /\ client'[c] = row
  BY DEF ConsentInv
<1>2. ClientsAgree'
  BY <1>1, NoneAssumption DEF ConsentInv, ClientsAgree, RowAgrees
<1>3. SameVendors
  BY <1>1, NoneAssumption DEF ConsentInv, SameVendors
<1> QED BY <1>1, <1>2, <1>3

\* Then what the page and the grants show still holds.
LEMMA ShownStays ==
  ASSUME ConsentInv, SameVendors
  PROVE  /\ UNCHANGED page => PageAgrees'
         /\ UNCHANGED grant => AsShown'
<1>1. UNCHANGED page => PageAgrees'
  <2> SUFFICES ASSUME UNCHANGED page, page # None PROVE PageAgrees'
    BY DEF PageAgrees
  <2>1. page.client \in Clients
    BY DEF ConsentInv, Page
  <2>2. client[page.client] \in Row \/ client[page.client] = Swept
    BY <2>1 DEF ConsentInv, PageAgrees
  <2> QED BY <2>1, <2>2, NoneAssumption DEF ConsentInv, PageAgrees, SameVendors
<1>2. UNCHANGED grant => AsShown'
  <2> SUFFICES ASSUME UNCHANGED grant, NEW g \in Grants, grant[g] # None
               PROVE  AsShown!(g)'
    BY DEF AsShown
  <2>1. grant[g].shown.client \in Clients
    BY DEF ConsentInv, Grant, Page
  <2> QED BY <2>1, NoneAssumption DEF ConsentInv, AsShown, SameVendors
<1> QED BY <1>1, <1>2

LEMMA NextConsent == ASSUME ConsentInv, [Next]_vars PROVE ConsentInv'
<1>1. ASSUME NEW c \in Clients, RegisterClient(c) PROVE ConsentInv'
  <2>1. PICK uris \in Documents : \E v \in VendorsFor(uris) :
           client' = [client EXCEPT ![c] = [uris |-> uris, vendor |-> v, fresh |-> TRUE]]
    BY <1>1 DEF RegisterClient
  <2>2. PICK v \in VendorsFor(uris) :
           client' = [client EXCEPT ![c] = [uris |-> uris, vendor |-> v, fresh |-> TRUE]]
    BY <2>1
  <2> DEFINE row == [uris |-> uris, vendor |-> v, fresh |-> TRUE]
  <2>3. row \in Row /\ RowAgrees(c, row)
    BY <1>1, <2>2 DEF Row, RowAgrees, VendorsFor, RegisterClient
  <2>4. client[c] = None /\ UNCHANGED <<page, grant>>
    BY <1>1 DEF RegisterClient
  <2> HIDE DEF row
  <2>5. client' = [client EXCEPT ![c] = row]
    BY <2>2 DEF row
  <2> QED BY <2>3, <2>4, <2>5, RowReplaced, ShownStays, NoneAssumption DEF ConsentInv
<1>2. ASSUME NEW c \in Clients, Stale(c) PROVE ConsentInv'
  <2> DEFINE row == [uris |-> client[c].uris, vendor |-> client[c].vendor, fresh |-> FALSE]
  <2>1. HostOf[c] # NoVendor /\ client[c] # None /\ UNCHANGED <<page, grant>>
        /\ client' = [client EXCEPT ![c] = row]
    BY <1>2 DEF Stale
  <2>2. client[c] \in Row /\ RowAgrees(c, client[c])
    BY <2>1 DEF ConsentInv, ClientsAgree
  <2>3. row \in Row /\ RowAgrees(c, row) /\ row.vendor = client[c].vendor
    BY <2>2 DEF Row, RowAgrees
  <2> HIDE DEF row
  <2> QED BY <2>1, <2>2, <2>3, RowReplaced, ShownStays, NoneAssumption DEF ConsentInv
<1>3. ASSUME NEW c \in Clients, SweepClient(c) PROVE ConsentInv'
  <2>1. HostOf[c] = NoVendor /\ UNCHANGED page /\ client' = [client EXCEPT ![c] = Swept]
    BY <1>3 DEF SweepClient
  <2>2. \A g \in Grants :
          \/ grant'[g] = grant[g] /\ (grant[g] # None => grant[g].shown.client # c)
          \/ grant'[g] = None
    BY <1>3, NoneAssumption DEF SweepClient, ConsentInv
  <2>3. grant' \in [Grants -> Grant \cup {None}]
    BY <1>3, NoneAssumption DEF SweepClient, ConsentInv
  <2>4. client' \in [Clients -> Row \cup {None, Swept}]
    BY <2>1 DEF ConsentInv
  <2>5. ClientsAgree'
    BY <2>1, NoneAssumption DEF ConsentInv, ClientsAgree, RowAgrees
  <2>6. PageAgrees'
    BY <2>1, NoneAssumption DEF ConsentInv, PageAgrees
  <2>7. AsShown'
    <3> SUFFICES ASSUME NEW g \in Grants, grant'[g] # None PROVE AsShown!(g)'
      BY DEF AsShown
    <3>1. grant[g] # None /\ grant'[g] = grant[g] /\ grant[g].shown.client # c
      BY <2>2
    <3>2. client'[grant[g].shown.client] = client[grant[g].shown.client]
      BY <2>1, <3>1 DEF ConsentInv, Grant, Page
    <3> QED BY <3>1, <3>2 DEF ConsentInv, AsShown
  <2> QED BY <2>1, <2>3, <2>4, <2>5, <2>6, <2>7 DEF ConsentInv
<1>4. ASSUME NEW c \in Clients, NEW r \in Redirects, NEW scopes \in SUBSET Scopes,
             AuthorizeContext(c, r, scopes) PROVE ConsentInv'
  <2>1. PICK row \in Load(c) :
           /\ client' = [client EXCEPT ![c] = row]
           /\ page' = IF r \in row.uris
                      THEN [client |-> c, redirect |-> r, scopes |-> Asked(scopes),
                            vendor |-> row.vendor]
                      ELSE None
    BY <1>4 DEF AuthorizeContext
  <2>2. row \in Row /\ RowAgrees(c, row)
    BY LoadAgrees
  <2>3. /\ client' \in [Clients -> Row \cup {None, Swept}] /\ client'[c] = row
        /\ ClientsAgree' /\ SameVendors
    BY <2>1, <2>2, LoadAgrees, RowReplaced
  <2>4. UNCHANGED grant
    BY <1>4 DEF AuthorizeContext
  <2>5. page' \in Page \cup {None}
    BY <2>1, <2>2 DEF Page, Row, Asked
  <2>6. PageAgrees'
    BY <2>1, <2>2, <2>3, NoneAssumption DEF PageAgrees, RowAgrees
  <2> QED BY <2>3, <2>4, <2>5, <2>6, ShownStays DEF ConsentInv
<1>5. ASSUME NEW c \in Clients, OtherContext(c) PROVE ConsentInv'
  <2>1. PICK row \in Load(c) : client' = [client EXCEPT ![c] = row]
    BY <1>5 DEF OtherContext
  <2>2. UNCHANGED <<page, grant>>
    BY <1>5 DEF OtherContext
  <2> QED BY <2>1, <2>2, LoadAgrees, RowReplaced, ShownStays DEF ConsentInv
<1>6. ASSUME NEW g \in Grants, Allow(g) PROVE ConsentInv'
  <2>1. page # None /\ page' = None /\ page \in Page
    BY <1>6 DEF Allow, ConsentInv
  <2>2. page.client \in Clients /\ page.redirect \in Redirects /\ page.scopes \in SUBSET Scopes
    BY <2>1 DEF Page
  <2>3. PICK row \in Load(page.client) :
           /\ client' = [client EXCEPT ![page.client] = row]
           /\ grant' = IF page.redirect \in row.uris
                       THEN [grant EXCEPT ![g] = [state |-> "code", shown |-> page,
                                                  scopes |-> page.scopes]]
                       ELSE grant
    BY <1>6 DEF Allow
  <2>4. row \in Row /\ client[page.client] # Swept /\ client[page.client] # None
        /\ row.vendor = page.vendor
    BY <2>1, <2>2, LoadAgrees DEF ConsentInv, PageAgrees
  <2>5. /\ client' \in [Clients -> Row \cup {None, Swept}] /\ client'[page.client] = row
        /\ ClientsAgree' /\ SameVendors
    BY <2>2, <2>3, LoadAgrees, RowReplaced
  <2>6. [state |-> "code", shown |-> page, scopes |-> page.scopes] \in Grant
    BY <2>1, <2>2 DEF Grant
  <2>7. grant' \in [Grants -> Grant \cup {None}]
    BY <2>3, <2>6 DEF ConsentInv
  <2>8. AsShown'
    <3>1. UNCHANGED grant => AsShown'
      BY <2>5, ShownStays
    <3> SUFFICES ASSUME NEW h \in Grants, grant'[h] # None, ~UNCHANGED grant
                 PROVE  AsShown!(h)'
      BY <3>1 DEF AsShown
    <3>2. grant' = [grant EXCEPT ![g] = [state |-> "code", shown |-> page,
                                         scopes |-> page.scopes]]
      BY <2>3
    <3>3. CASE h = g
      BY <2>1, <2>4, <2>5, <3>2, <3>3 DEF ConsentInv, PageAgrees
    <3>4. CASE h # g
      <4>1. grant'[h] = grant[h] /\ grant[h] \in Grant
        BY <3>2, <3>4 DEF ConsentInv
      <4>2. grant[h].shown.client \in Clients
        BY <4>1 DEF Grant, Page
      <4> QED BY <2>5, <4>1, <4>2, NoneAssumption DEF ConsentInv, AsShown, SameVendors
    <3> QED BY <3>3, <3>4
  <2>9. PageAgrees'
    BY <2>1 DEF PageAgrees
  <2> QED BY <2>1, <2>5, <2>7, <2>8, <2>9 DEF ConsentInv
<1>7. ASSUME Deny PROVE ConsentInv'
  BY <1>7 DEF Deny, ConsentInv, ClientsAgree, PageAgrees, AsShown
<1>8. ASSUME NEW g \in Grants, Redeem(g) \/ Disconnect(g) PROVE ConsentInv'
  <2>1. PICK state \in {"live", "revoked"} : Become(g, state)
    BY <1>8 DEF Redeem, Disconnect
  <2>2. grant[g] \in Grant /\ UNCHANGED <<client, page>>
    BY <1>8 DEF Redeem, Disconnect, State, ConsentInv
  <2> DEFINE new == [state |-> state, shown |-> grant[g].shown, scopes |-> grant[g].scopes]
  <2>3. new \in Grant /\ new.shown = grant[g].shown /\ new.scopes = grant[g].scopes
    BY <2>2 DEF Grant
  <2>4. grant' = [grant EXCEPT ![g] = new]
    BY <2>1 DEF Become
  <2> HIDE DEF new
  <2>5. grant' \in [Grants -> Grant \cup {None}]
    BY <2>3, <2>4 DEF ConsentInv
  <2>6. AsShown'
    BY <2>2, <2>3, <2>4, NoneAssumption DEF ConsentInv, AsShown
  <2> QED BY <2>2, <2>5, <2>6 DEF ConsentInv, ClientsAgree, PageAgrees
<1>9. ASSUME UNCHANGED consent PROVE ConsentInv'
  BY <1>9 DEF consent, ConsentInv, ClientsAgree, PageAgrees, AsShown
<1>10. ASSUME NEW k \in Calls, ToolCall(k) PROVE UNCHANGED consent
  BY <1>10 DEF ToolCall, Gate, GateAsks, GateHears, Open, Write, consent
<1>11. ASSUME (\E g \in Grants : GateAges(g)) \/ Save \/ Lapse \/ UNCHANGED vars
       PROVE  UNCHANGED consent
  BY <1>11 DEF GateAges, Save, Lapse, vars, consent
<1> QED BY <1>1, <1>2, <1>3, <1>4, <1>5, <1>6, <1>7, <1>8, <1>9, <1>10, <1>11 DEF Next, Connect

\* The vendor the consent page named is who the code went to and who everything is put
\* down to, the scopes it listed are those granted, and a client with a grant stays
\* (oauth.py:11-16, 321, 595, 609).
THEOREM AppsAreAsShown == Spec => []AsShown
<1>1. ConsentInv => AsShown
  BY DEF ConsentInv
<1> QED BY <1>1, InitConsent, NextConsent, PTL DEF Spec
-----------------------------------------------------------------------------
(* Tool calls                                                               *)

Under == {"ask", "live", "dead", "sent"}

\* A call that was late is under a grant that stays revoked, and is never let through.
CallAgrees(c) ==
    /\ c.at \in {"idle", "open"} \cup Under
    /\ c.at # "idle" => c.grant \in Grants
    /\ c.at \in Under /\ c.late => State(c.grant) = "revoked"
    /\ c.at = "open" => ~c.late

CallInv == DOMAIN call = Calls /\ \A k \in Calls : CallAgrees(call[k])

LEMMA InitCalls == ASSUME Init PROVE CallInv
  BY DEF Init, CallInv, CallAgrees, Idle, Under

\* A grant that is revoked stays so.
LEMMA RevokedForGood ==
  ASSUME ConsentInv, [Next]_vars, NEW g \in Grants, State(g) = "revoked"
  PROVE  State(g)' = "revoked"
<1>1. grant[g] # None /\ grant[g].state = "revoked"
  BY DEF State
<1>2. CASE UNCHANGED grant
  BY <1>1, <1>2 DEF State
<1>3. ASSUME NEW c \in Clients, SweepClient(c) PROVE grant'[g] = grant[g]
  BY <1>1, <1>3 DEF SweepClient
<1>4. ASSUME NEW h \in Grants, Allow(h) PROVE grant'[g] = grant[g]
  <2>1. h # g
    BY <1>1, <1>4 DEF Allow
  <2>2. PICK row \in Load(page.client) :
           grant' = IF page.redirect \in row.uris
                    THEN [grant EXCEPT ![h] = [state |-> "code", shown |-> page,
                                               scopes |-> page.scopes]]
                    ELSE grant
    BY <1>4 DEF Allow
  <2> QED BY <2>1, <2>2
<1>5. ASSUME NEW h \in Grants, Redeem(h) \/ Disconnect(h) PROVE grant'[g] = grant[g]
  <2>1. h # g
    BY <1>1, <1>5 DEF Redeem, Disconnect, State
  <2>2. Become(h, "live") \/ Become(h, "revoked")
    BY <1>5 DEF Redeem, Disconnect
  <2> QED BY <2>1, <2>2 DEF Become, ConsentInv
<1>6. UNCHANGED grant \/ grant'[g] = grant[g]
  <2>1. ASSUME Connect PROVE UNCHANGED grant \/ grant'[g] = grant[g]
    BY <2>1, <1>3, <1>4, <1>5
    DEF Connect, RegisterClient, Stale, OtherContext, AuthorizeContext, Deny
  <2>2. ASSUME NEW k \in Calls, ToolCall(k) PROVE UNCHANGED grant
    BY <2>2 DEF ToolCall, Gate, GateAsks, GateHears, Open, Write
  <2>3. ASSUME (\E h \in Grants : GateAges(h)) \/ Save \/ Lapse \/ UNCHANGED vars
        PROVE  UNCHANGED grant
    BY <2>3 DEF GateAges, Save, Lapse, vars
  <2> QED BY <2>1, <2>2, <2>3 DEF Next
<1> QED BY <1>1, <1>6 DEF State

\* One call moves on and the others stay, while the grants may only come to be revoked.
LEMMA OneCallMoves ==
  ASSUME CallInv, ConsentInv, [Next]_vars, NEW k \in Calls, NEW new, Serve(k, new),
         CallAgrees(new)'
  PROVE  CallInv'
<1>1. DOMAIN call' = Calls /\ call'[k] = new
      /\ \A j \in Calls \ {k} : call'[j] = call[j]
  BY DEF Serve, CallInv
<1>2. ASSUME NEW j \in Calls \ {k} PROVE CallAgrees(call[j])'
  BY <1>1, <1>2, RevokedForGood DEF CallInv, CallAgrees, Under
<1> QED BY <1>1, <1>2 DEF CallInv

LEMMA NextCalls == ASSUME ConsentInv, CallInv, [Next]_vars PROVE CallInv'
<1>1. ASSUME UNCHANGED call PROVE CallInv'
  BY <1>1, RevokedForGood DEF CallInv, CallAgrees, Under
<1>2. ASSUME NEW k \in Calls, NEW g \in Grants, NEW tool \in Tools, Gate(k, g, tool)
      PROVE  CallInv'
  <2>1. PICK new : /\ Serve(k, new) /\ new.at \in Under /\ new.grant = g
                   /\ new.late => State(g) = "revoked"
    <3> DEFINE at == IF gate[g] = "unknown" THEN "ask" ELSE "sent"
    <3>1. Serve(k, Sent(at, g, tool, State(g) = "revoked"))
      BY <1>2 DEF Gate
    <3>2. WITNESS Sent(at, g, tool, State(g) = "revoked")
    <3> QED BY <3>1 DEF Sent, Under
  <2>2. State(g)' = State(g)
    BY <1>2 DEF Gate, State
  <2>3. CallAgrees(new)'
    BY <2>1, <2>2 DEF CallAgrees, Under
  <2> QED BY <2>1, <2>3, OneCallMoves
<1>3. ASSUME NEW k \in Calls, GateAsks(k) PROVE CallInv'
  <2>1. call[k].at = "ask" /\ UNCHANGED grant
    BY <1>3 DEF GateAsks
  <2>2. PICK new \in {Idle, Moved(call[k], "live"), Moved(call[k], "dead")} : Serve(k, new)
    BY <1>3 DEF GateAsks
  <2>3. CallAgrees(new)'
    BY <2>1, <2>2 DEF CallInv, CallAgrees, Moved, Sent, Under, Idle, State
  <2> QED BY <2>2, <2>3, OneCallMoves
<1>4. ASSUME NEW k \in Calls, GateHears(k) PROVE CallInv'
  <2>1. call[k].at \in {"live", "dead"} /\ UNCHANGED grant
    BY <1>4 DEF GateHears
  <2>2. PICK new \in {Idle, Moved(call[k], "sent")} : Serve(k, new)
    BY <1>4 DEF GateHears
  <2>3. CallAgrees(new)'
    BY <2>1, <2>2 DEF CallInv, CallAgrees, Moved, Sent, Under, Idle, State
  <2> QED BY <2>2, <2>3, OneCallMoves
<1>5. ASSUME NEW k \in Calls, Open(k) PROVE CallInv'
  <2>1. call[k].at = "sent" /\ UNCHANGED grant
    BY <1>5 DEF Open
  <2>2. PICK change : Serve(k, IF Accepted(call[k].grant, call[k].tool)
                                  /\ WithinLimit(call[k].tool, change)
                               THEN Opened(call[k], change) ELSE Idle)
    BY <1>5 DEF Open
  <2>3. PICK new : /\ Serve(k, new)
                   /\ \/ new = Idle
                      \/ /\ new = Opened(call[k], change)
                         /\ State(call[k].grant) = "live"
    BY <2>2 DEF Accepted
  <2>4. CallAgrees(new)'
    BY <2>1, <2>3 DEF CallInv, CallAgrees, Opened, Under, Idle
  <2> QED BY <2>3, <2>4, OneCallMoves
<1>6. ASSUME NEW k \in Calls, Write(k) PROVE CallInv'
  <2>1. Serve(k, Idle) /\ UNCHANGED grant
    BY <1>6 DEF Write
  <2>2. CallAgrees(Idle)'
    BY DEF CallAgrees, Idle, Under
  <2> QED BY <2>1, <2>2, OneCallMoves
<1>7. ASSUME Connect \/ (\E g \in Grants : GateAges(g)) \/ Save \/ Lapse \/ UNCHANGED vars
      PROVE  UNCHANGED call
  BY <1>7 DEF Connect, RegisterClient, Stale, SweepClient, OtherContext, AuthorizeContext,
              Allow, Deny, Redeem, Disconnect, GateAges, Save, Lapse, vars
<1> QED BY <1>1, <1>2, <1>3, <1>4, <1>5, <1>6, <1>7 DEF Next, ToolCall

\* A call sent after the user disconnected the app changes nothing, though the connector
\* still trusts its token (mcp-connector/app/main.py:46-48).
THEOREM RevocationHolds == Spec => RevokedAtOnce
<1>1. ASSUME CallInv PROVE \A k \in Calls : Write(k) => ~call[k].late
  BY <1>1 DEF CallInv, CallAgrees, Write
<1>2. CallInv /\ [Next]_vars => [\A k \in Calls : Write(k) => ~call[k].late]_vars
  BY <1>1
<1> QED BY <1>2, InitConsent, NextConsent, InitCalls, NextCalls, PTL DEF Spec, RevokedAtOnce
-----------------------------------------------------------------------------
(* The daily limit                                                          *)

\* The calls that passed the check and have not recorded their removal
Removing == {k \in Calls : call[k].at = "open" /\ call[k].tool = "remove" /\ call[k].change # None}

LimitInv ==
    /\ used \in Nat
    /\ used + Cardinality(Removing) <= Limit - 1 + Cardinality(Calls)

LEMMA SomeCalls ==
  ASSUME NEW S \in SUBSET Calls
  PROVE  /\ IsFiniteSet(S) /\ Cardinality(S) \in Nat
         /\ Cardinality(Calls) \in Nat /\ Cardinality(S) <= Cardinality(Calls)
  BY CallAssumption, FS_Subset, FS_CardinalityType

LEMMA InitLimit == ASSUME Init PROVE LimitInv
<1>1. Removing = {}
  BY DEF Init, Removing, Idle
<1>2. Cardinality(Removing) = 0
  BY <1>1, FS_EmptySet
<1> QED BY <1>2, SomeCalls, LimitAssumption DEF Init, LimitInv

LEMMA NextLimit == ASSUME CallInv, LimitInv, [Next]_vars PROVE LimitInv'
<1> DEFINE n == Cardinality(Removing)
           m == Cardinality(Calls)
<1>a. /\ IsFiniteSet(Removing) /\ n \in Nat /\ m \in Nat
      /\ n' \in Nat /\ n' <= m
  <2>1. Removing \in SUBSET Calls /\ Removing' \in SUBSET Calls
    BY DEF Removing
  <2> QED BY <2>1, SomeCalls
<1>b. used \in Nat /\ used + n <= Limit - 1 + m
  BY DEF LimitInv
<1>c. used' \in Nat /\ used' + n' <= Limit - 1 + m => LimitInv'
  BY DEF LimitInv
<1> USE LimitAssumption
<1>1. ASSUME Removing' = Removing, used' \in Nat, used' <= used PROVE LimitInv'
  <2>1. n' = n
    BY <1>1
  <2> QED BY <1>1, <1>a, <1>b, <1>c, <2>1
<1>2. ASSUME NEW k \in Calls, NEW new, Serve(k, new), UNCHANGED used,
             call[k].at # "open",
             new.at = "open" /\ new.tool = "remove" /\ new.change # None => used < Limit
      PROVE  LimitInv'
  <2>1. call'[k] = new /\ \A j \in Calls \ {k} : call'[j] = call[j]
    BY <1>2 DEF Serve, CallInv
  <2>2. CASE new.at = "open" /\ new.tool = "remove" /\ new.change # None
    <3> QED BY <1>2, <2>2, <1>a, <1>b, <1>c
  <2>3. CASE ~(new.at = "open" /\ new.tool = "remove" /\ new.change # None)
    <3>1. Removing' = Removing
      BY <1>2, <2>1, <2>3 DEF Removing
    <3> QED BY <1>1, <1>2, <1>b, <3>1
  <2> QED BY <2>2, <2>3
<1>3. ASSUME NEW k \in Calls,
             (\E g \in Grants, tool \in Tools : Gate(k, g, tool)) \/ GateAsks(k) \/ GateHears(k)
      PROVE  LimitInv'
  <2>1. UNCHANGED used /\ call[k].at # "open"
    BY <1>3 DEF Gate, GateAsks, GateHears, Idle
  <2>2. PICK new : Serve(k, new) /\ new.at # "open"
    <3>1. CASE \E g \in Grants, tool \in Tools : Gate(k, g, tool)
      BY <3>1 DEF Gate, Sent
    <3>2. CASE GateAsks(k)
      BY <3>2 DEF GateAsks, Moved, Sent, Idle
    <3>3. CASE GateHears(k)
      BY <3>3 DEF GateHears, Moved, Sent, Idle
    <3> QED BY <1>3, <3>1, <3>2, <3>3
  <2> QED BY <1>2, <2>1, <2>2
<1>4. ASSUME NEW k \in Calls, Open(k) PROVE LimitInv'
  <2>1. PICK change \in Changes(call[k].tool) :
           Serve(k, IF Accepted(call[k].grant, call[k].tool)
                       /\ WithinLimit(call[k].tool, change)
                    THEN Opened(call[k], change) ELSE Idle)
    BY <1>4 DEF Open
  <2>2. PICK new : /\ Serve(k, new)
                   /\ \/ new = Idle
                      \/ /\ new = Opened(call[k], change)
                         /\ WithinLimit(call[k].tool, change)
    BY <2>1
  <2>3. new.at = "open" /\ new.tool = "remove" /\ new.change # None => used < Limit
    BY <2>2 DEF Opened, Idle, WithinLimit
  <2>4. UNCHANGED used /\ call[k].at # "open"
    BY <1>4 DEF Open
  <2> QED BY <1>2, <2>2, <2>3, <2>4
<1>5. ASSUME NEW k \in Calls, Serve(k, Idle) PROVE Removing' = Removing \ {k}
  BY <1>5 DEF Serve, Removing, Idle, CallInv
<1>6. ASSUME NEW k \in Calls, Write(k) PROVE LimitInv'
  <2>1. Removing' = Removing \ {k}
    BY <1>5, <1>6 DEF Write
  <2>2. CASE k \in Removing
    <3>1. used' = used + 1
      BY <1>6, <2>2 DEF Write, Removing
    <3>2. n' = n - 1
      BY <2>1, <2>2, <1>a, FS_RemoveElement
    <3> QED BY <3>1, <3>2, <1>a, <1>b, <1>c
  <2>3. CASE k \notin Removing
    <3>1. Removing' = Removing
      BY <2>1, <2>3
    <3>2. UNCHANGED used
      BY <1>6, <2>3 DEF Write, Removing
    <3> QED BY <1>1, <1>b, <3>1, <3>2
  <2> QED BY <2>2, <2>3
<1>7. ASSUME Save PROVE LimitInv'
  <2>1. Removing' = Removing /\ UNCHANGED used
    BY <1>7 DEF Save, Removing
  <2> QED BY <1>1, <1>b, <2>1
<1>8. ASSUME Lapse PROVE LimitInv'
  <2>1. Removing' = Removing
    BY <1>8 DEF Lapse, Removing
  <2>2. used' \in Nat /\ used' <= used
    BY <1>8, <1>b DEF Lapse
  <2> QED BY <1>1, <2>1, <2>2
<1>9. ASSUME Connect \/ (\E g \in Grants : GateAges(g)) \/ UNCHANGED vars PROVE LimitInv'
  <2>1. UNCHANGED <<call, used>>
    BY <1>9 DEF Connect, RegisterClient, Stale, SweepClient, OtherContext, AuthorizeContext,
                Allow, Deny, Redeem, Disconnect, GateAges, vars
  <2>2. Removing' = Removing
    BY <2>1 DEF Removing
  <2> QED BY <1>1, <1>b, <2>1, <2>2
<1> QED BY <1>3, <1>4, <1>6, <1>7, <1>8, <1>9 DEF Next, ToolCall

\* Requests that meet at the daily limit pass it by as many as they are, less one, and no
\* further (assistant.py:66, jobs.py:457-458).
THEOREM OvershootIsBounded == Spec => []OvershootBounded
<1>1. ASSUME LimitInv PROVE OvershootBounded
  <2>1. Cardinality(Removing) \in Nat /\ Cardinality(Calls) \in Nat
    BY SomeCalls DEF Removing
  <2> QED BY <1>1, <2>1, LimitAssumption DEF LimitInv, OvershootBounded
<1>2. LimitInv => OvershootBounded
  BY <1>1
<1> QED BY <1>2, InitConsent, NextConsent, InitCalls, NextCalls, InitLimit, NextLimit, PTL
        DEF Spec
-----------------------------------------------------------------------------
(* Types                                                                    *)

CallType(c) == c = Idle \/ OpenCall(c) \/ c \in Call

LEMMA SentType ==
  ASSUME NEW at \in {"ask", "live", "dead", "sent"}, NEW g \in Grants, NEW tool \in Tools,
         NEW late \in BOOLEAN
  PROVE  Sent(at, g, tool, late) \in Call
  BY DEF Sent, Call

LEMMA OpenedType ==
  ASSUME NEW c, c.grant \in Grants, c.late \in BOOLEAN, NEW change,
         \/ c.tool = "remove" /\ change \in Removed \cup {None}
         \/ c.tool = "note" /\ change \subseteq Notes
  PROVE  OpenCall(Opened(c, change))
  BY DEF OpenCall, Opened

LEMMA ChangeType ==
  ASSUME TypeOK, NEW tool \in Tools, NEW change \in Changes(tool)
  PROVE  \/ tool = "remove" /\ change \in Removed \cup {None}
         \/ tool = "note" /\ change \subseteq Notes
<1>1. tool \in {"remove", "note"}
  BY DEF Tools, ScopeOf
<1>2. CASE tool = "remove"
  BY <1>2 DEF Changes
<1>3. CASE tool = "note"
  BY <1>3 DEF Changes, TypeOK, Review, Notes
<1> QED BY <1>1, <1>2, <1>3

LEMMA NextType == ASSUME TypeOK, CallInv, [Next]_vars,
                         client' \in [Clients -> Row \cup {None, Swept}],
                         page' \in Page \cup {None}, grant' \in [Grants -> Grant \cup {None}],
                         used' \in Nat
                  PROVE  TypeOK'
<1> USE DEF TypeOK
<1>a. ASSUME gate' \in [Grants -> {"unknown", "new", "old"}], review' \in Review,
             DOMAIN call' = Calls, \A k \in Calls : CallType(call'[k])
      PROVE  TypeOK'
  BY <1>a DEF CallType
<1>b. DOMAIN call = Calls /\ \A k \in Calls : CallType(call[k])
  BY DEF CallType
<1>c. ASSUME NEW k \in Calls, NEW new, Serve(k, new), CallType(new)
      PROVE  DOMAIN call' = Calls /\ \A j \in Calls : CallType(call'[j])
  <2>1. DOMAIN call' = Calls /\ call'[k] = new /\ \A j \in Calls \ {k} : call'[j] = call[j]
    BY <1>b, <1>c DEF Serve
  <2> QED BY <1>b, <1>c, <2>1
<1>d. ASSUME NEW k \in Calls, call[k].at \in {"ask", "live", "dead", "sent"}
      PROVE  call[k] \in Call
  BY <1>b, <1>d DEF CallType, OpenCall, Idle
<1>1. ASSUME NEW k \in Calls, NEW g \in Grants, NEW tool \in Tools, Gate(k, g, tool)
      PROVE  TypeOK'
  <2>1. PICK new \in Call : Serve(k, new)
    <3> DEFINE at == IF gate[g] = "unknown" THEN "ask" ELSE "sent"
    <3>1. Serve(k, Sent(at, g, tool, State(g) = "revoked"))
      BY <1>1 DEF Gate
    <3>2. Sent(at, g, tool, State(g) = "revoked") \in Call
      BY SentType
    <3> QED BY <3>1, <3>2
  <2> QED BY <1>1, <1>a, <1>c, <2>1 DEF Gate, CallType
<1>2. ASSUME NEW k \in Calls, GateAsks(k) PROVE TypeOK'
  <2>1. call[k] \in Call
    BY <1>2, <1>d DEF GateAsks
  <2>2. Moved(call[k], "live") \in Call /\ Moved(call[k], "dead") \in Call
    BY <2>1, SentType DEF Moved, Call
  <2>3. PICK new \in {Idle, Moved(call[k], "live"), Moved(call[k], "dead")} : Serve(k, new)
    BY <1>2 DEF GateAsks
  <2> QED BY <1>2, <1>a, <1>c, <2>2, <2>3 DEF GateAsks, CallType
<1>3. ASSUME NEW k \in Calls, GateHears(k) PROVE TypeOK'
  <2>1. call[k] \in Call
    BY <1>3, <1>d DEF GateHears
  <2>2. Moved(call[k], "sent") \in Call
    BY <2>1, SentType DEF Moved, Call
  <2>3. PICK new \in {Idle, Moved(call[k], "sent")} : Serve(k, new)
    BY <1>3 DEF GateHears
  <2>4. gate' \in [Grants -> {"unknown", "new", "old"}] /\ UNCHANGED review
    BY <1>3 DEF GateHears
  <2> QED BY <1>a, <1>c, <2>2, <2>3, <2>4 DEF CallType
<1>4. ASSUME NEW k \in Calls, Open(k) PROVE TypeOK'
  <2>1. call[k] \in Call
    BY <1>4, <1>d DEF Open
  <2>2. PICK change \in Changes(call[k].tool) :
           \E new \in {Idle, Opened(call[k], change)} : Serve(k, new)
    BY <1>4 DEF Open
  <2>3. OpenCall(Opened(call[k], change))
    BY <2>1, <2>2, ChangeType, OpenedType DEF Call
  <2> QED BY <1>4, <1>a, <1>c, <2>2, <2>3 DEF Open, CallType
<1>5. ASSUME NEW k \in Calls, Write(k) PROVE TypeOK'
  <2>1. OpenCall(call[k])
    BY <1>5, <1>b DEF Write, CallType, Idle, Call
  <2>2. review' \in Review
    <3>1. CASE call[k].tool = "note"
      BY <1>5, <2>1, <3>1 DEF Write, Noted, OpenCall, Review
    <3>2. CASE call[k].tool = "remove" /\ call[k].change # None
      BY <1>5, <2>1, <3>2 DEF Write, Marked, OpenCall, Review, Removed, Status
    <3>3. CASE call[k].tool = "remove" /\ call[k].change = None
      BY <1>5, <3>3 DEF Write
    <3> QED BY <2>1, <3>1, <3>2, <3>3 DEF OpenCall
  <2>3. CallType(Idle) /\ Serve(k, Idle)
    BY <1>5 DEF Write, CallType
  <2> QED BY <1>5, <1>a, <1>c, <2>2, <2>3 DEF Write
<1>6. ASSUME Save PROVE TypeOK'
  <2>1. review' \in Review
    BY <1>6 DEF Save, Marked, Noted, Review
  <2> QED BY <1>6, <1>a, <1>b, <2>1 DEF Save
<1>7. ASSUME NEW g \in Grants, GateAges(g) PROVE TypeOK'
  BY <1>7 DEF GateAges
<1>8. ASSUME Connect \/ Lapse \/ UNCHANGED vars PROVE UNCHANGED <<gate, call, review>>
  BY <1>8 DEF Connect, RegisterClient, Stale, SweepClient, OtherContext, AuthorizeContext,
              Allow, Deny, Redeem, Disconnect, Lapse, vars
<1> QED BY <1>1, <1>2, <1>3, <1>4, <1>5, <1>6, <1>7, <1>8, <1>a, <1>b DEF Next, ToolCall

\* The rows, the connector's cache and the calls have the types stated for them.
THEOREM TypesHold == Spec => []TypeOK
<1>1. Init => TypeOK
  BY DEF Init, TypeOK, Review, Status
<1>2. ASSUME TypeOK, CallInv, ConsentInv', LimitInv', [Next]_vars PROVE TypeOK'
  BY <1>2, NextType DEF ConsentInv, LimitInv
<1> QED BY <1>1, <1>2, InitConsent, NextConsent, InitCalls, NextCalls, InitLimit, NextLimit, PTL
        DEF Spec
=============================================================================
