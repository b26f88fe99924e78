------------------------- MODULE OAuthTokensProofs -------------------------
(***************************************************************************)
(* Proofs about OAuthTokens, for every set of consents, users and clients, *)
(* and every bound.                                                        *)
(*                                                                         *)
(*  - RowsInv holds for any number of processes: the rows and requests     *)
(*    have their types and refer to rows that were made.                   *)
(*  - TokenInv holds for one: it gives CodeBuysOneGrant, OneLivePair and   *)
(*    ReuseRevokes.                                                        *)
(*  - ClientInv adds what became of each answer: it gives StaysConnected.  *)
(*  - LinkInv adds that a pair is good as a whole or not at all: it gives  *)
(*    the refinement of Connection.                                        *)
(***************************************************************************)
EXTENDS OAuthTokens, TLAPS

\* One replica of the API is deployed, and it serves token requests one at a time.
OneProcess == \A p, q \in Processes : p = q

-----------------------------------------------------------------------------
(* Types and references                                                     *)

\* A token's grant was made, what a client has was issued, and a request holds
\* rows that are there.
RequestRefers(x) ==
    /\ x.at = "issue" => Made(x.grant)
    /\ x.at \in {"rotate", "retire"} => x.from \in delivered
    /\ x.at \in {"retire", "answer"} => Issued(x.pair)
    /\ x.at = "revoking" => \A g \in x.grants : Made(g)

RowsInv ==
    /\ TypeOK
    /\ \A q \in Pairs : Issued(q) => Made(grantOf[q])
    /\ \A q \in delivered : Issued(q)
    /\ \A g \in revoked \cup lost \cup ended : Made(g)
    /\ \A p \in Processes : RequestRefers(loop[p])

\* What each stage of a request carries.
LEMMA RequestFields ==
  ASSUME NEW x \in Request
  PROVE  /\ x.at = "claim" => x.code \in Codes
         /\ x.at = "issue" => x.grant \in Grants
         /\ x.at = "rotate" => x.from \in Pairs
         /\ x.at = "retire" => x.from \in Pairs /\ x.pair \in Pairs
         /\ x.at = "answer" => x.pair \in Pairs
         /\ x.at = "revoking" => x.grants \in SUBSET Grants /\ x.because \in SUBSET Codes
BY DEF Request, Idle

\* The stages a request can be put in.
LEMMA RequestStages ==
  /\ Idle \in Request
  /\ \A c \in Codes : [at |-> "claim", code |-> c] \in Request
  /\ \A g \in Grants : [at |-> "issue", grant |-> g] \in Request
  /\ \A q \in Pairs : [at |-> "rotate", from |-> q] \in Request
  /\ \A q, r \in Pairs : [at |-> "retire", from |-> q, pair |-> r] \in Request
  /\ \A q \in Pairs : [at |-> "answer", pair |-> q] \in Request
  /\ \A S \in SUBSET Grants, T \in SUBSET Codes :
        [at |-> "revoking", grants |-> S, because |-> T] \in Request
BY DEF Request

\* What is left of a list of grants to revoke.
LEMMA RevokingRest ==
  ASSUME NEW x \in Request, x.at = "revoking", NEW S \in SUBSET Grants
  PROVE  [x EXCEPT !.grants = S] = [at |-> "revoking", grants |-> S, because |-> x.because]
BY DEF Request, Idle

\* No grant is named like the absence of one.
LEMMA GrantNames == NoGrant \notin Grants /\ \A q \in Pairs : q \in Nat
BY LimitsAssumption DEF Grants, Pairs, NoGrant

\* At the start there are no rows and no requests.
LEMMA RowsInit == Init => RowsInv
BY LimitsAssumption, RequestStages, NoCodeAssumption
   DEF Init, RowsInv, TypeOK, Made, Issued, RequestRefers, Idle

\* Every action preserves types and references.
LEMMA RowsStep == RowsInv /\ [Next]_vars => RowsInv'
<1> SUFFICES ASSUME RowsInv, [Next]_vars PROVE RowsInv'
  OBVIOUS
<1> USE GrantNames, NoCodeAssumption, RequestStages
    DEF RowsInv, TypeOK, Made, Issued, RequestRefers, Serve, tables, clientVars
<1>a. \A p \in Processes : loop[p] \in Request
  OBVIOUS
<1>1. ASSUME NEW p \in Processes, NEW c \in Codes, ExchangeLoad(p, c) PROVE RowsInv'
  <2>1. strayed' \subseteq Parties
    BY <1>1, PartyAssumption DEF ExchangeLoad, Present
  <2>2. CASE loop' = [loop EXCEPT ![p] = [at |-> "claim", code |-> c]]
    BY <1>1, <2>1, <2>2 DEF ExchangeLoad
  <2>3. CASE UNCHANGED loop
    BY <1>1, <2>1, <2>3 DEF ExchangeLoad
  <2>4. ASSUME NEW S \in SUBSET Grants, \A g \in S : Made(g),
               loop' = [loop EXCEPT ![p] = [at |-> "revoking", grants |-> S, because |-> {c}]]
        PROVE  RowsInv'
    BY <1>1, <2>1, <2>4 DEF ExchangeLoad
  <2> QED
    <3> DEFINE found == {g \in Grants : Made(g) /\ Party(g) = PartyOf[c] /\ g \notin revoked}
    <3>1. found \in SUBSET Grants /\ \A g \in found : Made(g)
      OBVIOUS
    <3>2. \/ loop' = [loop EXCEPT ![p] = [at |-> "claim", code |-> c]]
          \/ UNCHANGED loop
          \/ loop' = [loop EXCEPT ![p] = [at |-> "revoking", grants |-> found, because |-> {c}]]
      BY <1>1 DEF ExchangeLoad
    <3> QED BY <3>1, <3>2, <2>2, <2>3, <2>4
<1>2. ASSUME NEW p \in Processes, NEW q \in Pairs, RefreshLoad(p, q) PROVE RowsInv'
  <2>1. q \in delivered /\ grantOf[q] \in Grants /\ Made(grantOf[q])
    BY <1>2 DEF RefreshLoad
  <2>2. strayed' \subseteq Parties
    <3>1. Party(grantOf[q]) \in Parties
      BY <2>1, PartyAssumption DEF Party
    <3> QED BY <1>2, <3>1 DEF RefreshLoad, Present
  <2>3. CASE loop' = [loop EXCEPT ![p] = [at |-> "rotate", from |-> q]]
    BY <1>2, <2>1, <2>2, <2>3 DEF RefreshLoad
  <2>4. CASE loop' = [loop EXCEPT ![p] = [at |-> "revoking", grants |-> {grantOf[q]},
                                          because |-> {}]]
    <3>1. {grantOf[q]} \in SUBSET Grants /\ {} \in SUBSET Codes
      BY <2>1
    <3>2. loop' \in [Processes -> Request]
      BY <2>4, <3>1
    <3> QED BY <1>2, <2>1, <2>2, <2>4, <3>2 DEF RefreshLoad
  <2> QED BY <1>2, <2>3, <2>4 DEF RefreshLoad
<1>3. ASSUME NEW p \in Processes, NEW q \in Pairs, RevokeToken(p, q) PROVE RowsInv'
  BY <1>3, <1>a, RequestFields
     DEF RevokeToken, RevokeGrant, Idle
<1>4. ASSUME NEW p \in Processes, ExchangeClaim(p) PROVE RowsInv'
  BY <1>4, <1>a, RequestFields
     DEF ExchangeClaim, NextGrant, Idle
<1>5. ASSUME NEW p \in Processes, ExchangeIssue(p) PROVE RowsInv'
  BY <1>5, <1>a, RequestFields
     DEF ExchangeIssue, Issue, NextPair, Kinds
<1>6. ASSUME NEW p \in Processes, RefreshIssue(p) PROVE RowsInv'
  BY <1>6, <1>a, RequestFields
     DEF RefreshIssue, Issue, NextPair, Kinds
<1>7. ASSUME NEW p \in Processes, RefreshRetire(p) PROVE RowsInv'
  BY <1>7, <1>a, RequestFields
     DEF RefreshRetire
<1>8. ASSUME NEW p \in Processes, RevokeNext(p) PROVE RowsInv'
  <2> PICK g \in loop[p].grants :
        LET rest == loop[p].grants \ {g} IN
        /\ RevokeGrant(g)
        /\ Serve(p, IF rest = {} THEN Idle ELSE [loop[p] EXCEPT !.grants = rest])
        /\ reused' = IF rest = {} THEN reused \cup loop[p].because ELSE reused
    BY <1>8 DEF RevokeNext
  <2> DEFINE rest == loop[p].grants \ {g}
             next == IF rest = {} THEN Idle
                     ELSE [at |-> "revoking", grants |-> rest, because |-> loop[p].because]
  <2>1. loop[p].grants \in SUBSET Grants /\ loop[p].because \in SUBSET Codes
    BY <1>8, <1>a, RequestFields DEF RevokeNext
  <2>2. loop' = [loop EXCEPT ![p] = next] /\ next \in Request
    <3>1. rest \in SUBSET Grants
      BY <2>1
    <3>2. [loop[p] EXCEPT !.grants = rest]
            = [at |-> "revoking", grants |-> rest, because |-> loop[p].because]
      BY <1>8, <3>1, <1>a, RevokingRest DEF RevokeNext
    <3> QED BY <3>1, <3>2, <2>1
  <2>3. revoked' = revoked \cup {g} /\ live' \subseteq live /\ reused' \subseteq Codes
    BY <2>1 DEF RevokeGrant
  <2>4. Made(g)
    BY <1>8 DEF RevokeNext
  <2>5. /\ UNCHANGED <<code, codeOf, grantOf, lapsed, delivered, lost, ended, strayed, crashes>>
        /\ \A h \in rest : Made(h)
    BY <1>8 DEF RevokeNext
  <2>6. CASE rest = {}
    <3>1. loop' = [loop EXCEPT ![p] = Idle]
      BY <2>2, <2>6
    <3> HIDE DEF rest, next
    <3> QED BY <3>1, <2>1, <2>3, <2>4, <2>5 DEF Idle
  <2>7. CASE rest # {}
    <3>1. loop' = [loop EXCEPT ![p] = [at |-> "revoking", grants |-> rest,
                                       because |-> loop[p].because]]
      BY <2>2, <2>7
    <3>2. loop' \in [Processes -> Request]
      BY <2>2
    <3> HIDE DEF rest, next
    <3> QED BY <3>1, <3>2, <2>1, <2>3, <2>4, <2>5
  <2> QED BY <2>6, <2>7
<1>9. ASSUME NEW p \in Processes, Answer(p) PROVE RowsInv'
  BY <1>9, <1>a, RequestFields
     DEF Answer, Idle
<1>10. ASSUME NEW p \in Processes, Crash(p) PROVE RowsInv'
  BY <1>10, <1>a, RequestFields
     DEF Crash, Idle
<1>11. ASSUME NEW g \in Grants, Disconnect(g) PROVE RowsInv'
  BY <1>11
     DEF Disconnect, RevokeGrant
<1>12. ASSUME NEW c \in Codes, IssueCode(c) PROVE RowsInv'
  BY <1>12
     DEF IssueCode
<1>13. CASE Lapse
  BY <1>13 DEF Lapse
<1>14. CASE Sweep
  BY <1>14 DEF Sweep
<1>15. CASE UNCHANGED vars
  BY <1>15 DEF vars
<1> QED BY <1>1, <1>2, <1>3, <1>4, <1>5, <1>6, <1>7, <1>8, <1>9, <1>10, <1>11, <1>12, <1>13,
           <1>14, <1>15 DEF Next, TokenRequest

\* The types of a running system, for any number of processes (oauth.py, models.py:391-455).
THEOREM TypeCorrect == Spec => []TypeOK
<1>1. RowsInv => TypeOK
  BY DEF RowsInv
<1> QED BY <1>1, RowsInit, RowsStep, PTL DEF Spec

-----------------------------------------------------------------------------
(* One process: codes, pairs and reuse                                      *)

Spent == {"used", "swept"}

\* What the checks at the head of a request still say when it acts on them.
RequestHolds(x) ==
    /\ x.at = "claim" => /\ x.code \notin reused /\ code[x.code] \in {"fresh", "swept"}
                         /\ \A g \in Grants : codeOf[g] # x.code
    /\ x.at = "issue" => \A q \in Pairs : grantOf[q] # x.grant
    /\ x.at \in {"rotate", "retire"} =>
            \A q \in delivered \ {x.from} :
                grantOf[q] = grantOf[x.from] => <<q, "refresh">> \notin live
    /\ x.at = "retire" => x.pair \notin delivered /\ grantOf[x.pair] = grantOf[x.from]
    /\ x.at = "answer" =>
            /\ x.pair \notin delivered
            /\ \A q \in delivered, k \in Kinds :
                    grantOf[q] = grantOf[x.pair] => <<q, k>> \notin live
    /\ x.at = "revoking" =>
            \A c \in x.because :
                /\ code[c] \in Spent
                /\ \A g \in Grants : codeOf[g] = c => g \in revoked \cup x.grants

TokenInv ==
    /\ RowsInv
    /\ \A g \in Grants : Made(g) => code[codeOf[g]] \in Spent
    /\ \A c \in reused : code[c] \in Spent
    /\ \A p \in Processes : RequestHolds(loop[p])
    /\ CodeBuysOneGrant
    /\ OneLivePair
    /\ ReuseRevokes

\* At the start nothing was issued.
LEMMA TokenInit == Init => TokenInv
<1> SUFFICES ASSUME Init PROVE TokenInv
  OBVIOUS
<1>1. RowsInv
  BY RowsInit
<1> QED BY <1>1, NoCodeAssumption
       DEF Init, TokenInv, Made, RequestHolds, Idle, CodeBuysOneGrant, OneLivePair, ReuseRevokes

\* Every action preserves TokenInv: a code is judged and claimed with no other
\* exchange in between, and the tokens of a grant that are not the newest die
\* before the newest is handed out.
LEMMA TokenStep == ASSUME OneProcess PROVE TokenInv /\ [Next]_vars => TokenInv'
<1> SUFFICES ASSUME TokenInv, [Next]_vars PROVE TokenInv'
  OBVIOUS
<1>a. RowsInv /\ RowsInv'
  BY RowsStep DEF TokenInv
<1>b. \A p \in Processes : loop[p] \in Request
  BY <1>a DEF RowsInv, TypeOK
<1> USE <1>a, GrantNames, NoCodeAssumption
    DEF RowsInv, TypeOK, Made, Issued, RequestRefers, Serve, tables, clientVars, Spent,
        OneProcess, TokenInv, RequestHolds, CodeBuysOneGrant, OneLivePair, ReuseRevokes
<1>1. ASSUME NEW p \in Processes, NEW c \in Codes, ExchangeLoad(p, c) PROVE TokenInv'
  BY <1>1, <1>b, RequestFields, PartyAssumption
     DEF ExchangeLoad, Present, Party, Idle
<1>2. ASSUME NEW p \in Processes, NEW q \in Pairs, RefreshLoad(p, q) PROVE TokenInv'
  BY <1>2, <1>b, RequestFields, PartyAssumption
     DEF RefreshLoad, Present, Party, Idle
<1>3. ASSUME NEW p \in Processes, NEW q \in Pairs, RevokeToken(p, q) PROVE TokenInv'
  BY <1>3, <1>b, RequestFields
     DEF RevokeToken, RevokeGrant, Idle
<1>4. ASSUME NEW p \in Processes, ExchangeClaim(p) PROVE TokenInv'
  BY <1>4, <1>b, RequestFields
     DEF ExchangeClaim, NextGrant, Idle
<1>5. ASSUME NEW p \in Processes, ExchangeIssue(p) PROVE TokenInv'
  BY <1>5, <1>b, RequestFields
     DEF ExchangeIssue, Issue, NextPair, Kinds
<1>6. ASSUME NEW p \in Processes, RefreshIssue(p) PROVE TokenInv'
  BY <1>6, <1>b, RequestFields
     DEF RefreshIssue, Issue, NextPair, Kinds
<1>7. ASSUME NEW p \in Processes, RefreshRetire(p) PROVE TokenInv'
  <2> DEFINE from == loop[p].from
             new == loop[p].pair
  <2>1. from \in Pairs /\ new \in Pairs /\ from \in delivered /\ new \notin delivered
        /\ grantOf[new] = grantOf[from]
    BY <1>7, <1>b, RequestFields DEF RefreshRetire
  <2>2. /\ loop' = [loop EXCEPT ![p] = [at |-> "answer", pair |-> new]]
        /\ live' = live \ ({<<from, "refresh">>} \cup
                ({q \in Pairs : grantOf[q] = grantOf[new]} \ {new}) \X {"access"})
        /\ UNCHANGED <<code, codeOf, revoked, grantOf, lapsed, clientVars, crashes>>
    BY <1>7 DEF RefreshRetire
  <2>3. ASSUME NEW q \in delivered, NEW k \in Kinds, grantOf[q] = grantOf[new]
        PROVE  <<q, k>> \notin live'
    <3>1. CASE k = "access"
      <4>1. q \in Pairs /\ q # new
        BY <2>1
      <4> QED BY <2>2, <2>3, <3>1, <4>1
    <3>2. CASE k = "refresh"
      <4>1. q # from => <<q, "refresh">> \notin live
        BY <1>7, <2>1, <2>3 DEF RefreshRetire
      <4> QED BY <2>2, <3>2, <4>1
    <3> QED BY <2>3, <3>1, <3>2 DEF Kinds
  <2>4. live' \subseteq live
    BY <2>2
  <2>5. RequestHolds(loop[p])'
    BY <2>1, <2>2, <2>3
  <2>6. \A q \in Processes : RequestHolds(loop[q])'
    BY <2>5
  <2>7. OneLivePair'
    BY <2>2, <2>4
  <2> QED BY <2>2, <2>6, <2>7
<1>8. ASSUME NEW p \in Processes, RevokeNext(p) PROVE TokenInv'
  BY <1>8, <1>b, RequestFields, RevokingRest
     DEF RevokeNext, RevokeGrant, Idle
<1>9. ASSUME NEW p \in Processes, Answer(p) PROVE TokenInv'
  BY <1>9, <1>b, RequestFields
     DEF Answer, Idle
<1>10. ASSUME NEW p \in Processes, Crash(p) PROVE TokenInv'
  BY <1>10, <1>b, RequestFields
     DEF Crash, Idle
<1>11. ASSUME NEW g \in Grants, Disconnect(g) PROVE TokenInv'
  BY <1>11
     DEF Disconnect, RevokeGrant
<1>12. ASSUME NEW c \in Codes, IssueCode(c) PROVE TokenInv'
  BY <1>12
     DEF IssueCode
<1>13. CASE Lapse
  BY <1>13 DEF Lapse
<1>14. CASE Sweep
  <2>1. /\ UNCHANGED <<codeOf, revoked, grantOf, live, lapsed, loop, clientVars, crashes>>
        /\ \A c \in Codes : code'[c] \in {code[c], "swept"}
    BY <1>14 DEF Sweep
  <2>2. \A q \in Processes : loop[q].at = "claim" => loop[q].code \in Codes
    BY <1>b, RequestFields
  <2>3. \A q \in Processes : loop[q].at = "revoking" => loop[q].because \subseteq Codes
    BY <1>b, RequestFields
  <2>4. \A q \in Processes : RequestHolds(loop[q])'
    BY <2>1, <2>2, <2>3
  <2> QED BY <2>1, <2>4
<1>15. CASE UNCHANGED vars
  BY <1>15 DEF vars
<1> QED BY <1>1, <1>2, <1>3, <1>4, <1>5, <1>6, <1>7, <1>8, <1>9, <1>10, <1>11, <1>12, <1>13,
           <1>14, <1>15 DEF Next, TokenRequest

\* A consent is redeemed once, when one process serves the token endpoint: no code
\* ever makes two grants (models.py:408, oauth.py:441-463).
THEOREM CodeBuysOneGrantHolds == ASSUME OneProcess PROVE Spec => []CodeBuysOneGrant
<1>1. TokenInv => CodeBuysOneGrant
  BY DEF TokenInv
<1> QED BY <1>1, TokenInit, TokenStep, PTL DEF Spec

\* A client holds one live pair of a grant at most (oauth.py:491-503).
THEOREM OneLivePairHolds == ASSUME OneProcess PROVE Spec => []OneLivePair
<1>1. TokenInv => OneLivePair
  BY DEF TokenInv
<1> QED BY <1>1, TokenInit, TokenStep, PTL DEF Spec

\* A code presented again kills what its first use produced (oauth.py:452-458).
THEOREM ReuseRevokesHolds == ASSUME OneProcess PROVE Spec => []ReuseRevokes
<1>1. TokenInv => ReuseRevokes
  BY DEF TokenInv
<1> QED BY <1>1, TokenInit, TokenStep, PTL DEF Spec

-----------------------------------------------------------------------------
(* One process: honest clients                                              *)

\* A grant that may be revoked: its user or client asked for it, the client strayed,
\* or an answer to them was lost.
Excused(g) ==
    \/ g \in ended
    \/ Party(g) \in strayed
    \/ \E h \in lost : Party(h) = Party(g)

\* Every grant's first pair was delivered, lost, or is on its way.
FirstPair(g) ==
    \/ \E q \in delivered : grantOf[q] = g
    \/ g \in lost
    \/ \E p \in Processes : \/ loop[p].at = "issue" /\ loop[p].grant = g
                            \/ loop[p].at = "answer" /\ grantOf[loop[p].pair] = g

\* A spent refresh token has a successor that was delivered, lost, or is on its way.
Successor(q) ==
    \/ grantOf[q] \in revoked
    \/ grantOf[q] \in lost
    \/ \E r \in delivered : grantOf[r] = grantOf[q] /\ r > q
    \/ \E p \in Processes : /\ loop[p].at = "answer"
                            /\ grantOf[loop[p].pair] = grantOf[q] /\ loop[p].pair > q

RequestExcused(x) ==
    /\ x.at = "revoking" => \A g \in x.grants : Excused(g)
    /\ x.at = "retire" => x.pair > x.from
    /\ x.at \in {"retire", "answer"} =>
            <<x.pair, "refresh">> \in live \/ grantOf[x.pair] \in revoked

ClientInv ==
    /\ TokenInv
    /\ \A q, r \in Pairs : Issued(q) /\ r < q => Issued(r)
    /\ \A c \in Codes : code[c] = "used" => \E g \in Grants : codeOf[g] = c
    /\ \A g \in Grants : Made(g) => FirstPair(g)
    /\ \A q \in delivered : <<q, "refresh">> \notin live => Successor(q)
    /\ \A p \in Processes : RequestExcused(loop[p])
    /\ StaysConnected

\* At the start there is nothing to account for.
LEMMA ClientInit == Init => ClientInv
<1> SUFFICES ASSUME Init PROVE ClientInv
  OBVIOUS
<1>1. TokenInv
  BY TokenInit
<1> QED BY <1>1, GrantNames
       DEF Init, ClientInv, Made, Issued, RequestExcused, Idle, StaysConnected

\* A grant that is excused is revoked: what is said of every other grant, answer and
\* token stands.
LEMMA Revocation ==
  ASSUME ClientInv, NEW g \in Grants, RevokeGrant(g), g \in ended' \/ Excused(g),
         UNCHANGED <<codeOf, grantOf, delivered, lost, strayed>>, ended \subseteq ended',
         \A p \in Processes : loop[p].at \in {"issue", "answer"} => loop'[p] = loop[p]
  PROVE  /\ \A h \in Grants : Made(h) => FirstPair(h)'
         /\ \A q \in delivered : <<q, "refresh">> \notin live' => Successor(q)'
         /\ StaysConnected'
         /\ \A h \in Grants : Excused(h) => Excused(h)'
         /\ \A q \in Pairs : <<q, "refresh">> \in live =>
                                <<q, "refresh">> \in live' \/ grantOf[q] \in revoked'
<1> USE DEF ClientInv
<1>1. revoked' = revoked \cup {g}
  BY DEF RevokeGrant
<1>2. \A q \in Pairs : <<q, "refresh">> \in live =>
                          <<q, "refresh">> \in live' \/ grantOf[q] \in revoked'
  BY DEF RevokeGrant, TokensOf
<1>3. \A h \in Grants : Excused(h) => Excused(h)'
  BY DEF Excused, Party
<1>4. StaysConnected'
  <2>1. revoked \subseteq Grants
    BY DEF TokenInv, RowsInv, TypeOK
  <2>2. Excused(g)'
    BY <1>3 DEF Excused
  <2>3. StaysConnected => \A h \in revoked : Excused(h)
    BY DEF StaysConnected, Excused
  <2>4. \A h \in revoked' : Excused(h)'
    BY <1>1, <1>3, <2>1, <2>2, <2>3
  <2> QED BY <2>4 DEF StaysConnected, Excused
<1>5. \A q \in Pairs : Successor(q) => Successor(q)'
  BY <1>1 DEF Successor
<1>6. \A q \in delivered : <<q, "refresh">> \notin live' => Successor(q)'
  <2> SUFFICES ASSUME NEW q \in delivered, <<q, "refresh">> \notin live' PROVE Successor(q)'
    OBVIOUS
  <2>1. q \in Pairs
    BY DEF TokenInv, RowsInv, TypeOK
  <2>2. CASE <<q, "refresh">> \in live
    BY <1>2, <2>1, <2>2 DEF Successor
  <2>3. CASE <<q, "refresh">> \notin live
    BY <1>5, <2>1, <2>3
  <2> QED BY <2>2, <2>3
<1>7. \A h \in Grants : Made(h) => FirstPair(h)'
  BY DEF FirstPair
<1> QED BY <1>2, <1>3, <1>4, <1>6, <1>7

\* A request that arrives while none is served changes nothing of this.
LEMMA Arrival ==
  ASSUME ClientInv, \A p \in Processes : loop[p] = Idle,
         UNCHANGED <<codeOf, grantOf, revoked, live, delivered, lost, ended>>,
         strayed \subseteq strayed'
  PROVE  /\ \A h \in Grants : Made(h) => FirstPair(h)'
         /\ \A q \in delivered : <<q, "refresh">> \notin live' => Successor(q)'
         /\ StaysConnected'
         /\ \A h \in Grants : Excused(h) => Excused(h)'
<1> USE DEF ClientInv
<1>1. \A h \in Grants : Made(h) => FirstPair(h)'
  BY DEF FirstPair, Idle
<1>2. \A q \in delivered : <<q, "refresh">> \notin live' => Successor(q)'
  BY DEF Successor, Idle
<1>3. \A h \in Grants : Excused(h) => Excused(h)'
  BY DEF Excused, Party
<1>4. StaysConnected'
  <2>1. revoked \subseteq Grants
    BY DEF TokenInv, RowsInv, TypeOK
  <2>2. \A h \in revoked : Excused(h)
    BY DEF StaysConnected, Excused
  <2>3. \A h \in revoked' : Excused(h)'
    BY <1>3, <2>1, <2>2
  <2> QED BY <2>3 DEF StaysConnected, Excused
<1> QED BY <1>1, <1>2, <1>3, <1>4

\* Every action preserves ClientInv: what a client repeats without having been
\* answered is never taken for theft unless an answer was lost.
LEMMA ClientStep == ASSUME OneProcess PROVE ClientInv /\ [Next]_vars => ClientInv'
<1> SUFFICES ASSUME ClientInv, [Next]_vars PROVE ClientInv'
  OBVIOUS
<1>a. TokenInv /\ TokenInv'
  BY TokenStep DEF ClientInv
<1>b. \A p \in Processes : loop[p] \in Request
  BY <1>a DEF TokenInv, RowsInv, TypeOK
<1> USE <1>a, GrantNames, NoCodeAssumption
    DEF TokenInv, RowsInv, TypeOK, Made, Issued, RequestRefers, Serve, tables, clientVars,
        OneProcess, ClientInv
<1>1. ASSUME NEW p \in Processes, NEW c \in Codes, ExchangeLoad(p, c) PROVE ClientInv'
  <2>1. \A q \in Processes : loop[q] = Idle
    BY <1>1 DEF ExchangeLoad
  <2>2. UNCHANGED <<code, codeOf, grantOf, revoked, live, lapsed, delivered, lost, ended,
                    crashes>>
        /\ strayed \subseteq strayed'
    BY <1>1 DEF ExchangeLoad, Present
  <2>3. /\ \A h \in Grants : Made(h) => FirstPair(h)'
        /\ \A q \in delivered : <<q, "refresh">> \notin live' => Successor(q)'
        /\ StaysConnected'
    BY <2>1, <2>2, Arrival
  <2>4. ASSUME NEW g \in Grants, Party(g) = PartyOf[c], code[c] = "used"
        PROVE  Excused(g)'
    <3>1. CASE AnsweredCode(c)
      <4>1. PartyOf[c] \in strayed'
        BY <1>1, <3>1 DEF ExchangeLoad, Present
      <4> QED BY <2>2, <2>4, <4>1 DEF Excused, Party
    <3>2. CASE ~AnsweredCode(c)
      <4>1. PICK h \in Grants : codeOf[h] = c
        BY <2>4
      <4>2. h \in lost
        BY <2>1, <3>2, <4>1 DEF FirstPair, AnsweredCode, Idle
      <4>3. Party(h) = Party(g)
        BY <2>4, <4>1 DEF Party
      <4> QED BY <2>2, <4>2, <4>3 DEF Excused, Party
    <3> QED BY <3>1, <3>2
  <2>5. RequestExcused(loop[p])'
    <3> DEFINE found == {g \in Grants : Made(g) /\ Party(g) = PartyOf[c] /\ g \notin revoked}
    <3>1. CASE loop' = [loop EXCEPT ![p] = [at |-> "claim", code |-> c]] \/ UNCHANGED loop
      BY <2>1, <3>1 DEF RequestExcused, Idle
    <3>2. CASE /\ code[c] = "used"
               /\ loop' = [loop EXCEPT ![p] = [at |-> "revoking", grants |-> found,
                                               because |-> {c}]]
      <4>1. \A g \in found : Excused(g)'
        BY <2>4, <3>2
      <4> QED BY <3>2, <4>1 DEF RequestExcused
    <3> QED BY <1>1, <3>1, <3>2 DEF ExchangeLoad
  <2>6. \A q \in Processes : RequestExcused(loop[q])'
    BY <2>5
  <2> QED BY <2>2, <2>3, <2>6
<1>2. ASSUME NEW p \in Processes, NEW q \in Pairs, RefreshLoad(p, q) PROVE ClientInv'
  <2>1. \A r \in Processes : loop[r] = Idle
    BY <1>2 DEF RefreshLoad
  <2>2. UNCHANGED <<code, codeOf, grantOf, revoked, live, lapsed, delivered, lost, ended,
                    crashes>>
        /\ strayed \subseteq strayed'
    BY <1>2 DEF RefreshLoad, Present
  <2>3. /\ \A h \in Grants : Made(h) => FirstPair(h)'
        /\ \A r \in delivered : <<r, "refresh">> \notin live' => Successor(r)'
        /\ StaysConnected'
        /\ \A h \in Grants : Excused(h) => Excused(h)'
    BY <2>1, <2>2, Arrival
  <2>4. ASSUME NEW g \in Grants, g = grantOf[q], <<q, "refresh">> \notin live
        PROVE  Excused(g)'
    <3>1. q \in delivered
      BY <1>2 DEF RefreshLoad
    <3>2. CASE AnsweredRefresh(q)
      <4>1. Party(g) \in strayed'
        BY <1>2, <2>4, <3>2 DEF RefreshLoad, Present
      <4> QED BY <2>2, <4>1 DEF Excused, Party
    <3>3. CASE ~AnsweredRefresh(q)
      <4>1. g \in revoked \/ g \in lost
        BY <2>1, <2>4, <3>1, <3>3 DEF Successor, AnsweredRefresh, Idle
      <4>2. CASE g \in revoked
        BY <2>3, <4>2 DEF StaysConnected, Excused
      <4>3. CASE g \in lost
        BY <2>3, <4>3 DEF Excused
      <4> QED BY <4>1, <4>2, <4>3
    <3> QED BY <3>2, <3>3
  <2>5. RequestExcused(loop[p])'
    <3>1. CASE loop' = [loop EXCEPT ![p] = [at |-> "rotate", from |-> q]]
      BY <3>1 DEF RequestExcused
    <3>2. CASE /\ <<q, "refresh">> \notin live
               /\ loop' = [loop EXCEPT ![p] = [at |-> "revoking", grants |-> {grantOf[q]},
                                               because |-> {}]]
      <4>1. \A g \in {grantOf[q]} : Excused(g)'
        <5>1. grantOf[q] \in Grants
          BY <1>2 DEF RefreshLoad
        <5> QED BY <2>4, <3>2, <5>1
      <4> QED BY <3>2, <4>1 DEF RequestExcused
    <3> QED BY <1>2, <3>1, <3>2 DEF RefreshLoad
  <2>6. \A r \in Processes : RequestExcused(loop[r])'
    BY <2>5
  <2> QED BY <2>2, <2>3, <2>6
<1>3. ASSUME NEW p \in Processes, NEW q \in Pairs, RevokeToken(p, q) PROVE ClientInv'
  <2>1. grantOf[q] \in Grants /\ RevokeGrant(grantOf[q]) /\ ended' = ended \cup {grantOf[q]}
    BY <1>3 DEF RevokeToken
  <2>2. UNCHANGED <<code, codeOf, grantOf, lapsed, loop, delivered, reused, lost, strayed,
                    crashes>>
    BY <1>3 DEF RevokeToken
  <2>3. \A r \in Processes : loop[r] = Idle
    BY <1>3 DEF RevokeToken
  <2>4. /\ \A h \in Grants : Made(h) => FirstPair(h)'
        /\ \A r \in delivered : <<r, "refresh">> \notin live' => Successor(r)'
        /\ StaysConnected'
    BY <2>1, <2>2, Revocation
  <2> QED BY <2>2, <2>3, <2>4 DEF Idle, RequestExcused
<1>4. ASSUME NEW p \in Processes, ExchangeClaim(p) PROVE ClientInv'
  BY <1>4, <1>b, RequestFields
     DEF ExchangeClaim, NextGrant, Idle, FirstPair,
         Successor, RequestExcused, Excused, Party, StaysConnected
<1>5. ASSUME NEW p \in Processes, ExchangeIssue(p) PROVE ClientInv'
  BY <1>5, <1>b, RequestFields
     DEF ExchangeIssue, Issue, NextPair, Kinds, FirstPair,
         Successor, RequestExcused, Excused, Party, StaysConnected
<1>6. ASSUME NEW p \in Processes, RefreshIssue(p) PROVE ClientInv'
  BY <1>6, <1>b, RequestFields
     DEF RefreshIssue, Issue, NextPair, Kinds, FirstPair,
         Successor, RequestExcused, Excused, Party, StaysConnected
<1>7. ASSUME NEW p \in Processes, RefreshRetire(p) PROVE ClientInv'
  <2> DEFINE from == loop[p].from
             new == loop[p].pair
  <2>1. from \in Pairs /\ new \in Pairs /\ from \in delivered /\ new > from
        /\ new \notin delivered /\ grantOf[new] = grantOf[from]
    BY <1>7, <1>b, RequestFields DEF RefreshRetire, RequestHolds, RequestExcused
  <2>2. /\ loop' = [loop EXCEPT ![p] = [at |-> "answer", pair |-> new]]
        /\ \A q \in Pairs : <<q, "refresh">> \in live /\ q # from => <<q, "refresh">> \in live'
        /\ UNCHANGED <<code, codeOf, revoked, grantOf, lapsed, clientVars, crashes>>
    BY <1>7 DEF RefreshRetire
  <2>3. \A q \in Processes : q = p
    OBVIOUS
  <2>4. ASSUME NEW q \in delivered, <<q, "refresh">> \notin live'
        PROVE  Successor(q)'
    <3>1. CASE q = from
      BY <2>1, <2>2, <3>1 DEF Successor
    <3>2. CASE q # from
      <4>1. <<q, "refresh">> \notin live
        BY <2>2, <2>4, <3>2
      <4> QED BY <1>7, <2>2, <2>3, <4>1 DEF Successor, RefreshRetire
    <3> QED BY <3>1, <3>2
  <2>5. \A h \in Grants : Made(h) => FirstPair(h)'
    BY <1>7, <2>2, <2>3 DEF FirstPair, RefreshRetire
  <2>6. StaysConnected'
    BY <2>2 DEF StaysConnected, Party
  <2>7. RequestExcused(loop[p])'
    BY <1>7, <2>1, <2>2 DEF RequestExcused, RefreshRetire
  <2>8. \A q \in Processes : RequestExcused(loop[q])'
    BY <2>3, <2>7
  <2> QED BY <2>2, <2>4, <2>5, <2>6, <2>8
<1>8. ASSUME NEW p \in Processes, RevokeNext(p) PROVE ClientInv'
  <2> PICK g \in loop[p].grants :
        LET rest == loop[p].grants \ {g} IN
        /\ RevokeGrant(g)
        /\ Serve(p, IF rest = {} THEN Idle ELSE [loop[p] EXCEPT !.grants = rest])
    BY <1>8 DEF RevokeNext
  <2> DEFINE rest == loop[p].grants \ {g}
  <2>1. loop[p].at = "revoking" /\ loop[p].grants \in SUBSET Grants /\ g \in Grants
    BY <1>8, <1>b, RequestFields DEF RevokeNext
  <2>2. UNCHANGED <<code, codeOf, grantOf, lapsed, delivered, lost, ended, strayed, crashes>>
    BY <1>8 DEF RevokeNext
  <2>3. Excused(g) /\ \A h \in rest : h \in Grants /\ Excused(h)
    BY <2>1 DEF RequestExcused
  <2>4. /\ \A h \in Grants : Made(h) => FirstPair(h)'
        /\ \A q \in delivered : <<q, "refresh">> \notin live' => Successor(q)'
        /\ StaysConnected'
        /\ \A h \in Grants : Excused(h) => Excused(h)'
    <3>1. \A q \in Processes : loop[q].at \notin {"issue", "answer"}
      BY <2>1
    <3> QED BY <2>1, <2>2, <2>3, <3>1, Revocation
  <2>5. RequestExcused(loop[p])'
    <3>1. CASE rest = {}
      <4>1. loop' = [loop EXCEPT ![p] = Idle]
        BY <3>1
      <4> QED BY <4>1 DEF RequestExcused, Idle
    <3>2. CASE rest # {}
      <4>1. [loop[p] EXCEPT !.grants = rest]
              = [at |-> "revoking", grants |-> rest, because |-> loop[p].because]
        BY <2>1, <1>b, RevokingRest
      <4>2. loop' = [loop EXCEPT ![p] = [at |-> "revoking", grants |-> rest,
                                         because |-> loop[p].because]]
        BY <3>2, <4>1
      <4>3. \A h \in rest : Excused(h)'
        BY <2>3, <2>4
      <4> HIDE DEF rest
      <4> QED BY <4>2, <4>3 DEF RequestExcused
    <3> QED BY <3>1, <3>2
  <2>6. \A q \in Processes : RequestExcused(loop[q])'
    BY <2>5
  <2> QED BY <2>2, <2>4, <2>6
<1>9. ASSUME NEW p \in Processes, Answer(p) PROVE ClientInv'
  BY <1>9, <1>b, RequestFields
     DEF Answer, Idle, FirstPair,
         Successor, RequestExcused, Excused, Party, StaysConnected
<1>10. ASSUME NEW p \in Processes, Crash(p) PROVE ClientInv'
  BY <1>10, <1>b, RequestFields
     DEF Crash, Idle, FirstPair,
         Successor, RequestExcused, Excused, Party, StaysConnected
<1>11. ASSUME NEW g \in Grants, Disconnect(g) PROVE ClientInv'
  <2>1. RevokeGrant(g) /\ ended' = ended \cup {g}
    BY <1>11 DEF Disconnect
  <2>2. UNCHANGED <<code, codeOf, grantOf, lapsed, loop, delivered, reused, lost, strayed,
                    crashes>>
    BY <1>11 DEF Disconnect
  <2>3. /\ \A h \in Grants : Made(h) => FirstPair(h)'
        /\ \A r \in delivered : <<r, "refresh">> \notin live' => Successor(r)'
        /\ StaysConnected'
        /\ \A h \in Grants : Excused(h) => Excused(h)'
        /\ \A q \in Pairs : <<q, "refresh">> \in live =>
                                <<q, "refresh">> \in live' \/ grantOf[q] \in revoked'
    BY <2>1, <2>2, Revocation
  <2>4. revoked \subseteq revoked'
    BY <2>1 DEF RevokeGrant
  <2>5. ASSUME NEW q \in Processes PROVE RequestExcused(loop[q])'
    <3>1. CASE loop[q].at = "revoking"
      BY <2>2, <2>3, <3>1, <1>b, RequestFields DEF RequestExcused
    <3>2. CASE loop[q].at \in {"retire", "answer"}
      BY <2>2, <2>3, <2>4, <3>2, <1>b, RequestFields DEF RequestExcused
    <3> QED BY <2>2, <3>1, <3>2 DEF RequestExcused
  <2> QED BY <2>2, <2>3, <2>5
<1>12. ASSUME NEW c \in Codes, IssueCode(c) PROVE ClientInv'
  BY <1>12
     DEF IssueCode, FirstPair,
         Successor, RequestExcused, Excused, Party, StaysConnected
<1>13. CASE Lapse
  BY <1>13 DEF Lapse, FirstPair,
         Successor, RequestExcused, Excused, Party, StaysConnected
<1>14. CASE Sweep
  BY <1>14 DEF Sweep, FirstPair,
         Successor, RequestExcused, Excused, Party, StaysConnected
<1>15. CASE UNCHANGED vars
  BY <1>15 DEF vars, FirstPair,
         Successor, RequestExcused, Excused, Party, StaysConnected
<1> QED BY <1>1, <1>2, <1>3, <1>4, <1>5, <1>6, <1>7, <1>8, <1>9, <1>10, <1>11, <1>12, <1>13,
           <1>14, <1>15 DEF Next, TokenRequest

\* A client that repeats only what was not answered keeps its grant until the user
\* or it ends it, unless an answer to the same user and client was lost
\* (oauth.py:491-503).
THEOREM StaysConnectedHolds == ASSUME OneProcess PROVE Spec => []StaysConnected
<1>1. ClientInv => StaysConnected
  BY DEF ClientInv
<1> QED BY <1>1, ClientInit, ClientStep, PTL DEF Spec

-----------------------------------------------------------------------------
(* One process: the connection the endpoint implements                      *)

\* A pair on its way is newer than those the client has, and good for use; a consent
\* that came again has made a grant.
RequestNewer(x) ==
    /\ x.at \in {"retire", "answer"} =>
            /\ <<x.pair, "access">> \in live \/ grantOf[x.pair] \in revoked
            /\ \A r \in delivered : grantOf[r] = grantOf[x.pair] => r < x.pair
    /\ x.at = "revoking" => \A c \in x.because : \E g \in Grants : codeOf[g] = c

\* Both tokens of a pair the client has are good, or neither is.
WholePairs ==
    \A q \in delivered : grantOf[q] \notin revoked =>
        (<<q, "access">> \in live <=> <<q, "refresh">> \in live)

LinkInv ==
    /\ ClientInv
    /\ WholePairs
    /\ \A p \in Processes : RequestNewer(loop[p])

\* At the start nothing is on its way.
LEMMA LinkInvInit == Init => LinkInv
<1> SUFFICES ASSUME Init PROVE LinkInv
  OBVIOUS
<1>1. ClientInv
  BY ClientInit
<1> QED BY <1>1 DEF Init, LinkInv, WholePairs, RequestNewer, Idle

\* A revocation spoils both tokens of a pair alike.
LEMMA RevocationWhole ==
  ASSUME LinkInv, NEW g \in Grants, RevokeGrant(g), UNCHANGED <<codeOf, grantOf, delivered>>
  PROVE  /\ WholePairs'
         /\ \A q \in Pairs : \/ <<q, "access">> \in live => <<q, "access">> \in live'
                             \/ grantOf[q] \in revoked'
         /\ revoked \subseteq revoked'
<1>1. delivered \subseteq Pairs
  BY DEF LinkInv, ClientInv, TokenInv, RowsInv, TypeOK
<1>2. revoked' = revoked \cup {g} /\ live' = live \ TokensOf(g)
  BY DEF RevokeGrant
<1>3. ASSUME NEW q \in Pairs, NEW k \in Kinds, grantOf[q] # g
      PROVE  <<q, k>> \in live' <=> <<q, k>> \in live
  BY <1>2, <1>3 DEF TokensOf
<1>4. "access" \in Kinds /\ "refresh" \in Kinds
  BY DEF Kinds
<1>5. WholePairs'
  <2> SUFFICES ASSUME NEW q \in delivered, grantOf[q] \notin revoked'
               PROVE  <<q, "access">> \in live' <=> <<q, "refresh">> \in live'
    BY DEF WholePairs
  <2>1. q \in Pairs /\ grantOf[q] # g /\ grantOf[q] \notin revoked
    BY <1>1, <1>2
  <2>2. <<q, "access">> \in live <=> <<q, "refresh">> \in live
    BY <2>1 DEF LinkInv, WholePairs
  <2> QED BY <1>3, <1>4, <2>1, <2>2
<1>6. \A q \in Pairs : \/ <<q, "access">> \in live => <<q, "access">> \in live'
                       \/ grantOf[q] \in revoked'
  BY <1>2, <1>3, <1>4
<1> QED BY <1>2, <1>5, <1>6

\* Every action preserves LinkInv: the pair that is retired is the one whose tokens
\* were good, and both die with it.
LEMMA LinkInvStep == ASSUME OneProcess PROVE LinkInv /\ [Next]_vars => LinkInv'
<1> SUFFICES ASSUME LinkInv, [Next]_vars PROVE LinkInv'
  OBVIOUS
<1>a. ClientInv /\ ClientInv' /\ TokenInv /\ RowsInv /\ TypeOK
  BY ClientStep DEF LinkInv, ClientInv, TokenInv, RowsInv
<1>b. \A p \in Processes : loop[p] \in Request
  BY <1>a DEF TypeOK
<1>c. \A p, q \in Processes : p = q
  BY DEF OneProcess
<1>d. /\ \A q \in delivered : q \in Pairs /\ Issued(q)
      /\ WholePairs
      /\ \A p \in Processes : RequestNewer(loop[p]) /\ RequestHolds(loop[p])
                              /\ RequestRefers(loop[p]) /\ RequestExcused(loop[p])
  BY <1>a DEF LinkInv, ClientInv, TokenInv, RowsInv, TypeOK
<1>e. ASSUME WholePairs', \A p \in Processes : RequestNewer(loop[p])'
      PROVE  LinkInv'
  BY <1>a, <1>e DEF LinkInv
<1>f. ASSUME UNCHANGED <<codeOf, grantOf, revoked, live, delivered, loop>>
      PROVE  LinkInv'
  BY <1>d, <1>e, <1>f DEF WholePairs, RequestNewer
<1>g. loop \in [Processes -> Request]
  BY <1>a DEF TypeOK
<1>1. ASSUME NEW p \in Processes, NEW c \in Codes, ExchangeLoad(p, c) PROVE LinkInv'
  <2>1. UNCHANGED <<codeOf, grantOf, revoked, live, delivered>>
    BY <1>1 DEF ExchangeLoad, tables
  <2>2. WholePairs'
    BY <1>d, <2>1 DEF WholePairs
  <2>3. RequestNewer(loop[p])'
    <3>1. CASE loop' = [loop EXCEPT ![p] = [at |-> "claim", code |-> c]] \/ UNCHANGED loop
      BY <1>d, <1>g, <2>1, <3>1 DEF RequestNewer
    <3>2. ASSUME NEW S, code[c] = "used",
                 loop' = [loop EXCEPT ![p] = [at |-> "revoking", grants |-> S, because |-> {c}]]
          PROVE  RequestNewer(loop[p])'
      <4>1. \E g \in Grants : codeOf[g] = c
        BY <1>a, <3>2 DEF ClientInv
      <4> QED BY <1>g, <2>1, <3>2, <4>1 DEF RequestNewer
    <3> QED BY <1>1, <3>1, <3>2 DEF ExchangeLoad, Serve
  <2> QED BY <1>c, <1>e, <2>2, <2>3
<1>2. ASSUME NEW p \in Processes, NEW q \in Pairs, RefreshLoad(p, q) PROVE LinkInv'
  <2>1. UNCHANGED <<codeOf, grantOf, revoked, live, delivered>>
    BY <1>2 DEF RefreshLoad, tables
  <2>2. WholePairs'
    BY <1>d, <2>1 DEF WholePairs
  <2>3. RequestNewer(loop[p])'
    BY <1>2, <1>g, <2>1 DEF RefreshLoad, Serve, RequestNewer
  <2> QED BY <1>c, <1>e, <2>2, <2>3
<1>3. ASSUME NEW p \in Processes, NEW q \in Pairs, RevokeToken(p, q) PROVE LinkInv'
  <2>1. /\ RevokeGrant(grantOf[q]) /\ q \in delivered /\ loop[p] = Idle
        /\ UNCHANGED <<codeOf, grantOf, delivered, loop>>
    BY <1>3 DEF RevokeToken
  <2>2. grantOf[q] \in Grants
    BY <1>a, <1>d, <2>1, GrantNames DEF TypeOK, Issued
  <2>3. WholePairs'
    BY <2>1, <2>2, RevocationWhole
  <2>4. RequestNewer(loop[p])'
    BY <2>1 DEF RequestNewer, Idle
  <2> QED BY <1>c, <1>e, <2>3, <2>4
<1>4. ASSUME NEW p \in Processes, ExchangeClaim(p) PROVE LinkInv'
  <2>1. UNCHANGED <<grantOf, revoked, live, delivered>> /\ loop[p].at = "claim"
    BY <1>4 DEF ExchangeClaim, clientVars
  <2>2. WholePairs'
    BY <1>d, <2>1 DEF WholePairs
  <2>3. loop'[p].at \in {"idle", "issue"}
    BY <1>4, <1>g DEF ExchangeClaim, Serve, Idle
  <2>4. RequestNewer(loop[p])'
    BY <2>3 DEF RequestNewer
  <2> QED BY <1>c, <1>e, <2>2, <2>4
<1>5. ASSUME NEW p \in Processes, NEW new \in Pairs, NEW g \in Grants, Issue(new, g),
             loop' = [loop EXCEPT ![p] = [at |-> "answer", pair |-> new]]
               \/ \E from \in Pairs :
                    loop' = [loop EXCEPT ![p] = [at |-> "retire", from |-> from, pair |-> new]],
             UNCHANGED <<codeOf, revoked, delivered>>
      PROVE  LinkInv'
  <2>1. /\ grantOf' = [grantOf EXCEPT ![new] = g] /\ grantOf \in [Pairs -> Grants \cup {NoGrant}]
        /\ live' = live \cup {<<new, "access">>, <<new, "refresh">>}
        /\ ~Issued(new)
    BY <1>5, <1>a DEF Issue, NextPair, Kinds, TypeOK
  <2>2. new \notin delivered
    BY <1>d, <2>1
  <2>3. \A q \in delivered : /\ grantOf'[q] = grantOf[q]
                             /\ <<q, "access">> \in live' <=> <<q, "access">> \in live
                             /\ <<q, "refresh">> \in live' <=> <<q, "refresh">> \in live
    BY <1>d, <2>1, <2>2
  <2>4. WholePairs'
    BY <1>d, <1>5, <2>3 DEF WholePairs
  <2>5. \A r \in delivered : r < new
    <3> SUFFICES ASSUME NEW r \in delivered PROVE r < new
      OBVIOUS
    <3>1. r \in Pairs /\ Issued(r) /\ r # new
      BY <1>d, <2>2
    <3>2. ~(new < r)
      BY <1>a, <2>1, <3>1 DEF ClientInv
    <3> QED BY <3>1, <3>2, GrantNames
  <2>6. RequestNewer(loop[p])'
    <3>1. loop'[p].at \in {"retire", "answer"} /\ loop'[p].pair = new
      BY <1>5, <1>g
    <3> QED BY <1>5, <2>1, <2>5, <3>1 DEF RequestNewer
  <2> QED BY <1>c, <1>e, <2>4, <2>6
<1>6. ASSUME NEW p \in Processes, ExchangeIssue(p) PROVE LinkInv'
  <2>1. loop[p].grant \in Grants
    BY <1>6, <1>b, RequestFields DEF ExchangeIssue
  <2> QED BY <1>5, <1>6, <2>1 DEF ExchangeIssue, Serve, clientVars
<1>7. ASSUME NEW p \in Processes, RefreshIssue(p) PROVE LinkInv'
  <2>1. loop[p].from \in Pairs /\ loop[p].from \in delivered
    BY <1>7, <1>b, <1>d, RequestFields DEF RefreshIssue, RequestRefers
  <2>2. grantOf[loop[p].from] \in Grants
    BY <1>a, <1>d, <2>1, GrantNames DEF TypeOK, Issued
  <2> QED BY <1>5, <1>7, <2>1, <2>2 DEF RefreshIssue, Serve, clientVars
<1>8. ASSUME NEW p \in Processes, RefreshRetire(p) PROVE LinkInv'
  <2> DEFINE from == loop[p].from
             new == loop[p].pair
  <2>1. /\ from \in Pairs /\ new \in Pairs /\ from \in delivered /\ new \notin delivered
        /\ grantOf[new] = grantOf[from]
    BY <1>8, <1>b, <1>d, RequestFields DEF RefreshRetire, RequestHolds, RequestRefers
  <2>2. /\ loop' = [loop EXCEPT ![p] = [at |-> "answer", pair |-> new]]
        /\ live' = live \ ({<<from, "refresh">>} \cup
                ({q \in Pairs : grantOf[q] = grantOf[new]} \ {new}) \X {"access"})
        /\ UNCHANGED <<codeOf, revoked, grantOf, delivered>>
    BY <1>8 DEF RefreshRetire, Serve, clientVars
  <2>3. /\ <<new, "access">> \in live \/ grantOf[new] \in revoked
        /\ \A r \in delivered : grantOf[r] = grantOf[new] => r < new
        /\ \A q \in delivered \ {from} :
                grantOf[q] = grantOf[from] => <<q, "refresh">> \notin live
    BY <1>8, <1>d DEF RefreshRetire, RequestNewer, RequestHolds
  <2> HIDE DEF from, new
  <2>4. RequestNewer(loop[p])'
    BY <1>g, <2>1, <2>2, <2>3 DEF RequestNewer
  <2>5. ASSUME NEW q \in delivered, grantOf[q] \notin revoked
        PROVE  <<q, "access">> \in live' <=> <<q, "refresh">> \in live'
    <3>1. q \in Pairs /\ q # new
      BY <1>d, <2>1
    <3>2. <<q, "access">> \in live <=> <<q, "refresh">> \in live
      BY <1>d, <2>5 DEF WholePairs
    <3>3. CASE grantOf[q] = grantOf[new]
      <4>1. <<q, "access">> \notin live'
        BY <2>2, <3>1, <3>3
      <4>2. <<q, "refresh">> \notin live'
        BY <2>1, <2>2, <2>3, <3>3
      <4> QED BY <4>1, <4>2
    <3>4. CASE grantOf[q] # grantOf[new]
      BY <2>1, <2>2, <3>1, <3>2, <3>4
    <3> QED BY <3>3, <3>4
  <2>6. WholePairs'
    BY <2>2, <2>5 DEF WholePairs
  <2> QED BY <1>c, <1>e, <2>4, <2>6
<1>9. ASSUME NEW p \in Processes, RevokeNext(p) PROVE LinkInv'
  <2>1. PICK g \in loop[p].grants :
        /\ RevokeGrant(g)
        /\ Serve(p, IF loop[p].grants \ {g} = {} THEN Idle
                    ELSE [loop[p] EXCEPT !.grants = loop[p].grants \ {g}])
    BY <1>9 DEF RevokeNext
  <2>2. /\ UNCHANGED <<codeOf, grantOf, delivered>> /\ loop[p].at = "revoking"
        /\ loop[p].grants \in SUBSET Grants
    BY <1>9, <1>b, RequestFields DEF RevokeNext
  <2>3. WholePairs'
    BY <2>1, <2>2, RevocationWhole
  <2>4. RequestNewer(loop[p])'
    <3>1. CASE loop'[p] = Idle
      BY <3>1 DEF RequestNewer, Idle
    <3>2. CASE loop'[p] = [loop[p] EXCEPT !.grants = loop[p].grants \ {g}]
      <4>1. loop'[p] = [at |-> "revoking", grants |-> loop[p].grants \ {g},
                        because |-> loop[p].because]
        <5>1. loop[p].grants \ {g} \in SUBSET Grants
          BY <2>2
        <5> QED BY <1>b, <2>2, <3>2, <5>1, RevokingRest
      <4>2. \A c \in loop[p].because : \E h \in Grants : codeOf[h] = c
        BY <1>d, <2>2 DEF RequestNewer
      <4> QED BY <2>2, <4>1, <4>2 DEF RequestNewer
    <3> QED BY <1>g, <2>1, <3>1, <3>2 DEF Serve
  <2> QED BY <1>c, <1>e, <2>3, <2>4
<1>10. ASSUME NEW p \in Processes, Answer(p) PROVE LinkInv'
  <2>1. /\ UNCHANGED <<codeOf, grantOf, revoked, live>>
        /\ loop' = [loop EXCEPT ![p] = Idle]
        /\ delivered' \subseteq delivered \cup {loop[p].pair}
        /\ loop[p].at = "answer"
    BY <1>10 DEF Answer, tables, Serve
  <2>2. \/ grantOf[loop[p].pair] \in revoked
        \/ <<loop[p].pair, "access">> \in live /\ <<loop[p].pair, "refresh">> \in live
    BY <1>d, <2>1 DEF RequestNewer, RequestExcused
  <2>3. WholePairs'
    BY <1>d, <2>1, <2>2 DEF WholePairs
  <2>4. RequestNewer(loop[p])'
    BY <1>g, <2>1 DEF RequestNewer, Idle
  <2> QED BY <1>c, <1>e, <2>3, <2>4
<1>11. ASSUME NEW p \in Processes, Crash(p) PROVE LinkInv'
  <2>1. /\ UNCHANGED <<codeOf, grantOf, revoked, live, delivered>>
        /\ loop' = [loop EXCEPT ![p] = Idle]
    BY <1>11 DEF Crash, tables, Serve
  <2>2. WholePairs'
    BY <1>d, <2>1 DEF WholePairs
  <2>3. RequestNewer(loop[p])'
    BY <1>g, <2>1 DEF RequestNewer, Idle
  <2> QED BY <1>c, <1>e, <2>2, <2>3
<1>12. ASSUME NEW g \in Grants, Disconnect(g) PROVE LinkInv'
  <2>1. RevokeGrant(g) /\ UNCHANGED <<codeOf, grantOf, delivered, loop>>
    BY <1>12 DEF Disconnect
  <2>2. /\ WholePairs'
        /\ \A q \in Pairs : \/ <<q, "access">> \in live => <<q, "access">> \in live'
                            \/ grantOf[q] \in revoked'
        /\ revoked \subseteq revoked'
    BY <2>1, RevocationWhole
  <2>3. ASSUME NEW p \in Processes PROVE RequestNewer(loop[p])'
    <3>1. loop[p].at \in {"retire", "answer"} => loop[p].pair \in Pairs
      BY <1>b, RequestFields
    <3> QED BY <1>d, <2>1, <2>2, <3>1 DEF RequestNewer
  <2> QED BY <1>e, <2>2, <2>3
<1>13. ASSUME NEW c \in Codes, IssueCode(c) PROVE LinkInv'
  BY <1>f, <1>13 DEF IssueCode, clientVars
<1>14. CASE Lapse
  BY <1>f, <1>14 DEF Lapse, clientVars
<1>15. CASE Sweep
  BY <1>f, <1>15 DEF Sweep, clientVars
<1>16. CASE UNCHANGED vars
  BY <1>f, <1>16 DEF vars
<1> QED BY <1>1, <1>2, <1>3, <1>4, <1>6, <1>7, <1>8, <1>9, <1>10, <1>11, <1>12, <1>13, <1>14,
           <1>15, <1>16 DEF Next, TokenRequest

-----------------------------------------------------------------------------
(* The refinement                                                           *)

\* The connection of a pair, as the client sees it.
Under == [q \in Pairs |-> IF q \in delivered THEN grantOf[q] ELSE NoGrant]

LEMMA LinkStart == Init => Link!LinkInit
  BY DEF Init, Link!LinkInit, Good

\* A step that touches nothing a client was handed, nor a grant, is none of the
\* connection's.
LEMMA LinkSame ==
  ASSUME UNCHANGED <<codeOf, revoked, reused, delivered>>,
         \A q \in delivered : grantOf'[q] = grantOf[q],
         \A q \in delivered : \A k \in Kinds : <<q, k>> \in live' <=> <<q, k>> \in live,
         live \subseteq Pairs \X Kinds, live' \subseteq Pairs \X Kinds
  PROVE  UNCHANGED Link!linkVars
<1>1. Under' = Under
  BY DEF Under
<1>2. Good' = Good
  BY DEF Good
<1> QED BY <1>1, <1>2 DEF Link!linkVars, Under

\* A pair that was just issued is not the client's yet.
LEMMA LinkIssue ==
  ASSUME RowsInv, NEW q \in Pairs, NEW g \in Grants, Issue(q, g),
         UNCHANGED <<codeOf, revoked, reused, delivered>>
  PROVE  UNCHANGED Link!linkVars
<1>1. /\ grantOf \in [Pairs -> Grants \cup {NoGrant}] /\ live \subseteq Pairs \X Kinds
      /\ \A r \in delivered : Issued(r)
  BY DEF RowsInv, TypeOK
<1>2. q \notin delivered
  BY <1>1 DEF Issue, NextPair
<1>3. /\ \A r \in delivered : grantOf'[r] = grantOf[r]
      /\ \A r \in delivered : \A k \in Kinds : <<r, k>> \in live' <=> <<r, k>> \in live
      /\ live' \subseteq Pairs \X Kinds
  BY <1>1, <1>2 DEF Issue
<1> QED BY <1>1, <1>3, LinkSame

\* A revocation ends a connection, and tells the consents that came again.
LEMMA LinkEnds ==
  ASSUME RowsInv, NEW g \in Grants, RevokeGrant(g), NEW C \in SUBSET Codes,
         UNCHANGED <<codeOf, grantOf, delivered>>, reused' = reused \cup C,
         \A c \in C : \E h \in revoked' : codeOf[h] = c
  PROVE  Link!End({g}, C)
<1>1. live \subseteq Pairs \X Kinds /\ delivered \subseteq Pairs
  BY DEF RowsInv, TypeOK
<1>2. revoked' = revoked \cup {g} /\ live' = live \ TokensOf(g)
  BY DEF RevokeGrant
<1>3. Under' = Under
  BY DEF Under
<1>4. ASSUME NEW t \in Pairs \X Kinds
      PROVE  t \in Good' <=> t \in Good /\ Under[t[1]] \notin {g}
  <2>1. CASE t[1] \notin delivered
    BY <2>1 DEF Good
  <2>2. CASE t[1] \in delivered
    <3>1. t[1] \in Pairs /\ Under[t[1]] = grantOf[t[1]]
      BY <1>1, <2>2 DEF Under
    <3>2. grantOf[t[1]] # g => t \notin TokensOf(g)
      BY DEF TokensOf
    <3> QED BY <1>2, <2>2, <3>1, <3>2 DEF Good
  <2> QED BY <2>1, <2>2
<1>5. Good \subseteq Pairs \X Kinds /\ Good' \subseteq Pairs \X Kinds
  BY <1>1, <1>2 DEF Good
<1>6. Good' = {t \in Good : Under[t[1]] \notin {g}}
  BY <1>4, <1>5
<1> QED BY <1>2, <1>3, <1>6 DEF Link!End, Under

\* A consent that came again when all it made is over already.
LEMMA LinkRefuses ==
  ASSUME NEW c \in Codes, \E h \in revoked : codeOf[h] = c, reused' = reused \cup {c},
         UNCHANGED <<codeOf, grantOf, delivered, revoked, live>>
  PROVE  Link!End({}, {c})
<1>1. Under' = Under /\ Good' = Good
  BY DEF Under, Good
<1>2. Good' = {t \in Good : Under[t[1]] \notin {}}
  BY <1>1
<1> QED BY <1>1, <1>2 DEF Link!End, Under

\* The pair that is retired is superseded, with both its tokens: those of the older
\* ones were no good any more.
LEMMA LinkRetires ==
  ASSUME LinkInv, NEW p \in Processes, RefreshRetire(p)
  PROVE  Link!Supersede(loop[p].from)
<1> DEFINE from == loop[p].from
           new == loop[p].pair
<1>1. /\ TypeOK /\ WholePairs /\ RequestHolds(loop[p]) /\ RequestRefers(loop[p])
      /\ loop[p] \in Request /\ delivered \subseteq Pairs /\ live \subseteq Pairs \X Kinds
  BY DEF LinkInv, ClientInv, TokenInv, RowsInv, TypeOK
<1>2. /\ from \in Pairs /\ new \in Pairs /\ from \in delivered /\ new \notin delivered
      /\ grantOf[new] = grantOf[from]
      /\ \A q \in delivered \ {from} :
              grantOf[q] = grantOf[from] => <<q, "refresh">> \notin live
  BY <1>1, RequestFields DEF RefreshRetire, RequestHolds, RequestRefers
<1>3. /\ live' = live \ ({<<from, "refresh">>} \cup
              ({q \in Pairs : grantOf[q] = grantOf[new]} \ {new}) \X {"access"})
      /\ UNCHANGED <<codeOf, revoked, grantOf, delivered, reused>>
  BY DEF RefreshRetire, clientVars
<1> HIDE DEF from, new
<1>4. ASSUME NEW q \in delivered, grantOf[q] \notin revoked, NEW k \in Kinds
      PROVE  <<q, k>> \in live' <=> <<q, k>> \in live /\ q # from
  <2>1. q \in Pairs /\ q # new
    BY <1>1, <1>2
  <2>2. <<q, "access">> \in live <=> <<q, "refresh">> \in live
    BY <1>1, <1>4 DEF WholePairs
  <2>3. CASE grantOf[q] = grantOf[new]
    <3>1. <<q, "access">> \notin live' /\ <<q, "refresh">> \notin live'
      BY <1>2, <1>3, <2>1, <2>3
    <3>2. q # from => <<q, "access">> \notin live /\ <<q, "refresh">> \notin live
      BY <1>2, <2>2, <2>3
    <3> QED BY <3>1, <3>2 DEF Kinds
  <2>4. CASE grantOf[q] # grantOf[new]
    BY <1>2, <1>3, <2>1, <2>4
  <2> QED BY <2>3, <2>4
<1>5. live' \subseteq Pairs \X Kinds
  BY <1>1, <1>3
<1>6. \A t \in Pairs \X Kinds : t \in Good' <=> t \in Good /\ t \notin Link!Tokens(from)
  <2> SUFFICES ASSUME NEW q \in Pairs, NEW k \in Kinds
               PROVE  <<q, k>> \in Good' <=> <<q, k>> \in Good /\ <<q, k>> \notin Link!Tokens(from)
    OBVIOUS
  <2>1. <<q, k>> \in Link!Tokens(from) <=> q = from
    BY DEF Link!Tokens, Kinds
  <2>2. <<q, k>> \in Good <=> <<q, k>> \in live /\ q \in delivered /\ grantOf[q] \notin revoked
    BY DEF Good
  <2>3. <<q, k>> \in Good' <=> <<q, k>> \in live' /\ q \in delivered /\ grantOf[q] \notin revoked
    BY <1>3 DEF Good
  <2> QED BY <1>4, <2>1, <2>2, <2>3
<1>7. Good' = Good \ Link!Tokens(from)
  <2>1. Good \subseteq Pairs \X Kinds /\ Good' \subseteq Pairs \X Kinds
    BY <1>1, <1>5 DEF Good
  <2> QED BY <1>6, <2>1
<1>8. Under' = Under
  BY <1>3 DEF Under
<1> QED BY <1>3, <1>7, <1>8 DEF Link!Supersede, Under, from

\* An answer that arrives hands the client a pair newer than any it had, when it holds
\* none that is good.
LEMMA LinkHands ==
  ASSUME LinkInv, NEW p \in Processes, loop[p].at = "answer",
         NEW new \in Pairs, new = loop[p].pair, NEW g \in Grants, g = grantOf[new],
         delivered' = delivered \cup {new},
         UNCHANGED <<codeOf, grantOf, revoked, live, reused>>
  PROVE  Link!Hand(g, new)
<1>1. /\ TypeOK /\ RequestHolds(loop[p]) /\ RequestRefers(loop[p]) /\ RequestNewer(loop[p])
      /\ RequestExcused(loop[p]) /\ loop[p] \in Request
      /\ delivered \subseteq Pairs /\ live \subseteq Pairs \X Kinds
      /\ \A q \in Pairs : Issued(q) => Made(grantOf[q])
  BY DEF LinkInv, ClientInv, TokenInv, RowsInv, TypeOK
<1>2. new \notin delivered /\ Issued(new)
  BY <1>1 DEF RequestHolds, RequestRefers
<1>3. g # NoGrant /\ codeOf[g] # NoCode
  BY <1>1, <1>2, GrantNames DEF TypeOK, Issued, Made
<1>4. \A r \in delivered : grantOf[r] = g =>
          r < new /\ \A k \in Kinds : <<r, k>> \notin live
  BY <1>1 DEF RequestHolds, RequestNewer
<1>5. g \in revoked \/ \A k \in Kinds : <<new, k>> \in live
  BY <1>1 DEF RequestNewer, RequestExcused, Kinds
<1>6. \A r \in Pairs : Under[r] = g => r \in delivered /\ grantOf[r] = g
  BY <1>3 DEF Under
<1>7. \A r \in Pairs : ~Link!Holds(g, r)
  <2> SUFFICES ASSUME NEW r \in Pairs, Under[r] = g, NEW t \in Link!Tokens(r), t \in Good
               PROVE  FALSE
    BY DEF Link!Holds, Under
  <2>1. PICK k \in Kinds : t = <<r, k>>
    BY DEF Link!Tokens, Kinds
  <2>2. <<r, k>> \notin live
    BY <1>4, <1>6
  <2> QED BY <2>1, <2>2 DEF Good
<1>8. Under' = [Under EXCEPT ![new] = g]
  BY <1>2 DEF Under
<1>9. Good' = IF g \in revoked THEN Good ELSE Good \cup Link!Tokens(new)
  <2>1. /\ delivered' = delivered \cup {new} /\ UNCHANGED <<grantOf, revoked, live>>
        /\ grantOf[new] = g
    OBVIOUS
  <2>2. \A t : t \in Good' <=> t \in live /\ (t[1] \in delivered \/ t[1] = new)
                                     /\ grantOf[t[1]] \notin revoked
    BY <2>1 DEF Good
  <2>3. \A t \in Pairs \X Kinds : t \in Link!Tokens(new) <=> t[1] = new
    BY <1>2 DEF Link!Tokens, Kinds
  <2>4. Link!Tokens(new) \subseteq Pairs \X Kinds
    BY <1>2 DEF Link!Tokens, Kinds
  <2>5. CASE g \in revoked
    <3>1. \A t : t \in Good' <=> t \in Good
      BY <2>1, <2>2, <2>5 DEF Good
    <3> QED BY <2>5, <3>1
  <2>6. CASE g \notin revoked
    <3>1. \A t \in Link!Tokens(new) : t \in live /\ t[1] = new
      BY <1>5, <2>6 DEF Link!Tokens, Kinds
    <3>2. \A t \in live : t[1] = new => t \in Link!Tokens(new)
      BY <1>1, <2>3
    <3>3. \A t : t \in Good' <=> t \in Good \/ t \in Link!Tokens(new)
      BY <2>1, <2>2, <2>6, <3>1, <3>2 DEF Good
    <3> QED BY <2>6, <3>3
  <2> QED BY <2>5, <2>6
<1>10. UNCHANGED <<codeOf, revoked, reused>>
  OBVIOUS
<1>11. Under[new] = NoGrant /\ \A r \in Pairs : Under[r] = g => r < new
  BY <1>2, <1>4, <1>6 DEF Under
<1> QED BY <1>3, <1>7, <1>8, <1>9, <1>10, <1>11 DEF Link!Hand, Under

\* Every step of the token endpoint is a step of the connection, or none.
LEMMA LinkStep ==
  ASSUME OneProcess, LinkInv, [Next]_vars
  PROVE  [Link!LinkNext]_(Link!linkVars)
<1> DEFINE Goal == [Link!LinkNext]_(Link!linkVars)
<1>a. /\ RowsInv /\ TypeOK /\ live \subseteq Pairs \X Kinds
      /\ \A p \in Processes : loop[p] \in Request /\ RequestHolds(loop[p])
                              /\ RequestRefers(loop[p]) /\ RequestNewer(loop[p])
      /\ \A c \in Codes : code[c] = "used" => \E g \in Grants : codeOf[g] = c
  BY DEF LinkInv, ClientInv, TokenInv, RowsInv, TypeOK
<1>b. ASSUME UNCHANGED <<codeOf, grantOf, revoked, live, delivered, reused>> PROVE Goal
  BY <1>a, <1>b, LinkSame
<1>c. ASSUME NEW g \in Grants, NEW C \in SUBSET Codes, Link!End({g}, C) PROVE Goal
  <2>1. {g} \in SUBSET Grants
    OBVIOUS
  <2> QED BY <1>c, <2>1 DEF Link!LinkNext
<1>d. ASSUME NEW q \in Pairs, NEW g \in Grants, Issue(q, g),
             UNCHANGED <<codeOf, revoked, reused, delivered>>
      PROVE  Goal
  BY <1>a, <1>d, LinkIssue
<1>1. ASSUME NEW p \in Processes, NEW c \in Codes, ExchangeLoad(p, c) PROVE Goal
  <2>1. UNCHANGED <<codeOf, grantOf, revoked, live, delivered>>
    BY <1>1 DEF ExchangeLoad, tables
  <2>2. CASE UNCHANGED reused
    BY <1>b, <2>1, <2>2
  <2>3. CASE /\ code[c] = "used" /\ reused' = reused \cup {c}
             /\ {g \in Grants : Made(g) /\ Party(g) = PartyOf[c] /\ g \notin revoked} = {}
    <3>1. PICK g \in Grants : codeOf[g] = c
      BY <1>a, <2>3
    <3>2. g \in revoked
      BY <2>3, <3>1, NoCodeAssumption DEF Made, Party
    <3>3. Link!End({}, {c})
      BY <2>1, <2>3, <3>1, <3>2, LinkRefuses
    <3>4. {} \in SUBSET Grants /\ {c} \in SUBSET Codes
      OBVIOUS
    <3> QED BY <3>3, <3>4 DEF Link!LinkNext
  <2> QED BY <1>1, <2>2, <2>3 DEF ExchangeLoad
<1>2. ASSUME NEW p \in Processes, NEW q \in Pairs, RefreshLoad(p, q) PROVE Goal
  BY <1>2, <1>b DEF RefreshLoad, tables
<1>3. ASSUME NEW p \in Processes, NEW q \in Pairs, RevokeToken(p, q) PROVE Goal
  <2>1. grantOf[q] \in Grants
    BY <1>3, <1>a, GrantNames DEF RevokeToken, RowsInv, TypeOK, Issued
  <2>2. /\ RevokeGrant(grantOf[q]) /\ UNCHANGED <<codeOf, grantOf, delivered>>
        /\ reused' = reused \cup {} /\ {} \in SUBSET Codes
    BY <1>3 DEF RevokeToken
  <2>3. Link!End({grantOf[q]}, {})
    BY <1>a, <2>1, <2>2, LinkEnds
  <2> QED BY <1>c, <2>1, <2>2, <2>3
<1>4. ASSUME NEW p \in Processes, ExchangeClaim(p) PROVE Goal
  <2>1. UNCHANGED <<revoked, grantOf, live, delivered, reused>> /\ loop[p].at = "claim"
    BY <1>4 DEF ExchangeClaim, clientVars
  <2>2. CASE UNCHANGED codeOf
    BY <1>b, <2>1, <2>2
  <2>3. ASSUME NEW g \in Grants, ~Made(g), codeOf' = [codeOf EXCEPT ![g] = loop[p].code]
        PROVE  Goal
    <3>1. loop[p].code \in Codes /\ \A h \in Grants : codeOf[h] # loop[p].code
      BY <1>a, <2>1, RequestFields DEF RequestHolds
    <3>2. Under' = Under /\ Good' = Good
      BY <2>1 DEF Under, Good
    <3>3. Link!Redeem(loop[p].code, g)
      BY <2>1, <2>3, <3>1, <3>2 DEF Link!Redeem, Under, Made
    <3> QED BY <3>1, <3>3 DEF Link!LinkNext
  <2> QED BY <1>4, <2>2, <2>3 DEF ExchangeClaim, NextGrant
<1>5. ASSUME NEW p \in Processes, ExchangeIssue(p) PROVE Goal
  <2>1. loop[p].grant \in Grants
    BY <1>5, <1>a, RequestFields DEF ExchangeIssue
  <2> QED BY <1>d, <1>5, <2>1 DEF ExchangeIssue, clientVars
<1>6. ASSUME NEW p \in Processes, RefreshIssue(p) PROVE Goal
  <2>1. loop[p].from \in Pairs /\ loop[p].from \in delivered
    BY <1>6, <1>a, RequestFields DEF RefreshIssue, RequestRefers
  <2>2. grantOf[loop[p].from] \in Grants
    BY <1>a, <2>1, GrantNames DEF RowsInv, TypeOK, Issued
  <2> QED BY <1>d, <1>6, <2>2 DEF RefreshIssue, clientVars
<1>7. ASSUME NEW p \in Processes, RefreshRetire(p) PROVE Goal
  <2>1. loop[p].from \in Pairs
    BY <1>7, <1>a, RequestFields DEF RefreshRetire
  <2> QED BY <1>7, <2>1, LinkRetires DEF Link!LinkNext
<1>8. ASSUME NEW p \in Processes, RevokeNext(p) PROVE Goal
  <2>1. PICK g \in loop[p].grants :
        /\ RevokeGrant(g)
        /\ reused' = IF loop[p].grants \ {g} = {} THEN reused \cup loop[p].because ELSE reused
    BY <1>8 DEF RevokeNext
  <2>2. /\ UNCHANGED <<codeOf, grantOf, delivered>> /\ loop[p].at = "revoking"
        /\ loop[p].grants \in SUBSET Grants /\ loop[p].because \in SUBSET Codes
    BY <1>8, <1>a, RequestFields DEF RevokeNext
  <2>3. g \in Grants /\ revoked' = revoked \cup {g}
    BY <2>1, <2>2 DEF RevokeGrant
  <2>4. CASE loop[p].grants \ {g} # {}
    <3>1. reused' = reused \cup {} /\ {} \in SUBSET Codes
      BY <2>1, <2>4
    <3>2. Link!End({g}, {})
      BY <1>a, <2>1, <2>2, <2>3, <3>1, LinkEnds
    <3> QED BY <1>c, <2>3, <3>1, <3>2
  <2>5. CASE loop[p].grants \ {g} = {}
    <3>1. \A c \in loop[p].because : \E h \in revoked' : codeOf[h] = c
      <4> SUFFICES ASSUME NEW c \in loop[p].because PROVE \E h \in revoked' : codeOf[h] = c
        OBVIOUS
      <4>1. PICK h \in Grants : codeOf[h] = c
        BY <1>a, <2>2 DEF RequestNewer
      <4>2. h \in revoked \cup loop[p].grants
        BY <1>a, <2>2, <4>1 DEF RequestHolds
      <4>3. h \in revoked'
        BY <2>3, <2>5, <4>2
      <4> QED BY <4>1, <4>3
    <3>2. Link!End({g}, loop[p].because)
      BY <1>a, <2>1, <2>2, <2>3, <2>5, <3>1, LinkEnds
    <3> QED BY <1>c, <2>2, <2>3, <3>2
  <2> QED BY <2>4, <2>5
<1>9. ASSUME NEW p \in Processes, Answer(p) PROVE Goal
  <2>1. UNCHANGED <<codeOf, grantOf, revoked, live, reused>> /\ loop[p].at = "answer"
    BY <1>9 DEF Answer, tables
  <2>2. CASE UNCHANGED delivered
    BY <1>b, <2>1, <2>2
  <2>3. CASE delivered' = delivered \cup {loop[p].pair}
    <3>1. PICK new \in Pairs : new = loop[p].pair
      BY <1>a, <2>1, RequestFields
    <3>2. PICK g \in Grants : g = grantOf[new]
      BY <1>a, <2>1, <3>1, GrantNames DEF RowsInv, TypeOK, RequestRefers, Issued
    <3>3. Link!Hand(g, new)
      BY <2>1, <2>3, <3>1, <3>2, LinkHands
    <3> QED BY <3>3 DEF Link!LinkNext
  <2> QED BY <1>9, <2>2, <2>3 DEF Answer
<1>10. ASSUME NEW p \in Processes, Crash(p) PROVE Goal
  BY <1>10, <1>b DEF Crash, tables
<1>11. ASSUME NEW g \in Grants, Disconnect(g) PROVE Goal
  <2>1. /\ RevokeGrant(g) /\ UNCHANGED <<codeOf, grantOf, delivered>>
        /\ reused' = reused \cup {} /\ {} \in SUBSET Codes
    BY <1>11 DEF Disconnect
  <2>2. Link!End({g}, {})
    BY <1>a, <2>1, LinkEnds
  <2> QED BY <1>c, <2>1, <2>2
<1>12. ASSUME NEW c \in Codes, IssueCode(c) PROVE Goal
  BY <1>12, <1>b DEF IssueCode, clientVars
<1>13. CASE Lapse
  BY <1>13, <1>b DEF Lapse, clientVars
<1>14. CASE Sweep
  BY <1>14, <1>b DEF Sweep, clientVars
<1>15. CASE UNCHANGED vars
  BY <1>15, <1>b DEF vars
<1> HIDE DEF Goal
<1> QED BY <1>1, <1>2, <1>3, <1>4, <1>5, <1>6, <1>7, <1>8, <1>9, <1>10, <1>11, <1>12, <1>13,
           <1>14, <1>15 DEF Next, TokenRequest, Goal

\* The token endpoint implements the connection, when one process serves it: what a
\* disconnect, a repeated request or a restart finds half done is never seen by a
\* client as anything but a step of its connection (oauth.py:441-535).
THEOREM ConnectionImplemented == ASSUME OneProcess PROVE Spec => ImplementsConnection
<1>1. LinkInv /\ [Next]_vars => [Link!LinkNext]_(Link!linkVars)
  BY LinkStep
<1> QED BY <1>1, LinkInvInit, LinkInvStep, LinkStart, PTL
        DEF Spec, ImplementsConnection, Link!LinkSpec

-----------------------------------------------------------------------------
(* The connection, whoever keeps it                                         *)

VARIABLES bought, under, good, over, refused

AnyLink == INSTANCE Connection WITH
    Consents <- Codes, Links <- Grants, Numbers <- Pairs, NoConsent <- NoCode, NoLink <- NoGrant

\* What is good was handed out, and is the latest of its connection.
AnyLinkInv ==
    /\ bought \in [Grants -> Codes \cup {NoCode}]
    /\ under \in [Pairs -> Grants \cup {NoGrant}]
    /\ good \subseteq Pairs \X {"access", "refresh"}
    /\ over \subseteq Grants /\ refused \subseteq Codes
    /\ \A t \in good : under[t[1]] \in Grants \ over
    /\ \A c \in refused : \E g \in over : bought[g] = c
    /\ AnyLink!OneLinkEach
    /\ AnyLink!OnlyTheLatest

\* A consent makes one connection (models.py:408), the client's latest pair is the only
\* one that may be good, and whole (oauth.py:491-503), and nothing is good of what is
\* over or of what a refused consent made (oauth.py:452-455, models.py:422-424).
THEOREM ConnectionPromise ==
  AnyLink!LinkSpec => []/\ AnyLink!OneLinkEach
                        /\ AnyLink!OnlyTheLatest
                        /\ AnyLink!OverIsOver
<1> DEFINE Step == [AnyLink!LinkNext]_(AnyLink!linkVars)
<1>1. AnyLink!LinkInit => AnyLinkInv
  BY NoCodeAssumption
     DEF AnyLink!LinkInit, AnyLinkInv, AnyLink!OneLinkEach, AnyLink!OnlyTheLatest
<1>2. AnyLinkInv /\ Step => AnyLinkInv'
  <2> SUFFICES ASSUME AnyLinkInv, Step PROVE AnyLinkInv'
    OBVIOUS
  <2> USE GrantNames, NoCodeAssumption
      DEF AnyLinkInv, AnyLink!OneLinkEach, AnyLink!OnlyTheLatest, AnyLink!Tokens
  <2>1. ASSUME NEW g \in Grants, NEW c \in Codes, AnyLink!Redeem(c, g) PROVE AnyLinkInv'
    BY <2>1 DEF AnyLink!Redeem
  <2>2. ASSUME NEW g \in Grants, NEW q \in Pairs, AnyLink!Hand(g, q) PROVE AnyLinkInv'
    BY <2>2 DEF AnyLink!Hand, AnyLink!Holds
  <2>3. ASSUME NEW q \in Pairs, AnyLink!Supersede(q) PROVE AnyLinkInv'
    BY <2>3 DEF AnyLink!Supersede
  <2>4. ASSUME NEW G \in SUBSET Grants, NEW C \in SUBSET Codes, AnyLink!End(G, C)
        PROVE  AnyLinkInv'
    BY <2>4 DEF AnyLink!End
  <2>5. CASE UNCHANGED AnyLink!linkVars
    BY <2>5 DEF AnyLink!linkVars
  <2> QED BY <2>1, <2>2, <2>3, <2>4, <2>5 DEF AnyLink!LinkNext
<1>3. AnyLinkInv => AnyLink!OneLinkEach /\ AnyLink!OnlyTheLatest /\ AnyLink!OverIsOver
  BY NoCodeAssumption
     DEF AnyLinkInv, AnyLink!OneLinkEach, AnyLink!OnlyTheLatest, AnyLink!OverIsOver,
         AnyLink!Tokens
<1> QED BY <1>1, <1>2, <1>3, PTL DEF AnyLink!LinkSpec
=============================================================================
